---- MODULE Spec2Model ----
(***************************************************************************)
(* Z-order (Morton) index conversion of the zorder crate.                  *)
(*                                                                         *)
(* An unsigned integer of width W is modelled as the set of its set bit    *)
(* positions, a subset of 0..W-1 (bit 0 is the least significant bit).     *)
(* Bitwise OR is set union, bitwise AND is set intersection, a shift moves *)
(* every position and drops the positions that leave the word, and a       *)
(* narrowing cast keeps the positions below the target width.  The widths  *)
(* go up to 128 bits, so the values themselves are never turned into       *)
(* plain integers, except by Val for small literal values.                 *)
(***************************************************************************)
EXTENDS Integers, Sequences, FiniteSets, TLC

VARIABLES
    build,      \* "debug" (overflow checks on) or "release" (wrapping)
    api,        \* which family of functions the caller uses
    ty,         \* bit width of the coordinate type T
    dim,        \* the dimension N
    given,      \* what the caller supplied: "coords", "index", "mask", "type"
    coords,     \* the coordinate array the caller holds (one word per axis)
    index,      \* the index the caller holds
    decoded,    \* result of the software decode of index
    reindex,    \* result of encoding `decoded` again
    hw_index,   \* result of the BMI2 encode of coords
    hw_decoded, \* result of the BMI2 decode of index
    dual,       \* result of index_of_64_dual_pass on coords
    margs,      \* arguments <<W, dim, bits>> of an interleave_mask call
    mres,       \* result of that interleave_mask call
    outty,      \* result of resolving InterleaveOutput for (ty, dim)
    stage,      \* number of interleave stages still to run on `index`
    dety,       \* result of resolving DeinterleaveOutput for (ty, dim)
    hwty,       \* result of resolving DeinterleaveBMI2 for (ty, dim)
    cpu_bmi2,   \* the CPU supports BMI2: fixed for the life of the process
    prog,       \* per thread: the caller it runs ("convert" or "bench")
    pc,         \* per thread: its position in that caller
    detected,   \* per thread: what its feature detection has read
    token,      \* per thread: the Option<HardwareSupportToken> it holds
    pos,        \* per thread: iterations done of the loop it is in
    hw_calls,   \* per thread: accelerated encode/decode iterations done
    last_shift, \* the shift distance the last deinterleave stage computed
    coords2,    \* a second coordinate array the caller holds
    index2,     \* result of encoding coords2
    wide,       \* result of interleave_mask::<u128> on the arguments margs
    outs        \* per interleave implementation: its result on coords

vars == <<build, api, ty, dim, given, coords, index, decoded, reindex,
          hw_index, hw_decoded, dual, margs, mres, outty, stage, dety, hwty,
          cpu_bmi2, prog, pc, detected, token, pos, hw_calls, last_shift,
          coords2, index2, wide, outs>>

-----------------------------------------------------------------------------
(* Bounds of the model.                                                    *)

\* Inputs are words whose set bits form one run of at most MaxRun adjacent
\* positions, and the complements of such words.
MaxRun == 1

\* Dimensions offered to the output-type resolution go up to MaxDim, one
\* more than the largest dimension any table entry has.
MaxDim == 17

-----------------------------------------------------------------------------
(* Words.                                                                  *)

\* All ones of width W: T::max_value().
MaxValue(W) == 0..(W - 1)

\* x << s on a word of width W, 0 <= s < W.
Shl(x, s, W) == {p + s : p \in {q \in x : q + s < W}}

\* x >> s, 0 <= s.
Shr(x, s) == {p - s : p \in {q \in x : q >= s}}

\* `as` cast to an unsigned type of width w: truncation (widening changes
\* nothing).
Cast(x, w) == {p \in x : p < w}

\* PrimInt::unsigned_shl / unsigned_shr (and the << and >> operators) with a
\* shift amount of type u32.  With overflow checks the shift panics when
\* s >= W; without them the amount is reduced modulo W.  s is given as the
\* mathematical value of the u32 computation; W divides 2^32, so reducing
\* the wrapped u32 value modulo W equals reducing s modulo W.
unsigned_shl(x, s, W) == Shl(x, s % W, W)
unsigned_shr(x, s, W) == Shr(x, s % W)
ShiftOverflows(s, W) == s < 0 \/ s >= W

RECURSIVE Pow2(_)
Pow2(e) == IF e = 0 THEN 1 ELSE 2 * Pow2(e - 1)

\* Value of a word as a natural number (only for words below 2^30).
RECURSIVE Val(_)
Val(x) == IF x = {} THEN 0
          ELSE LET p == CHOOSE q \in x : TRUE IN Pow2(p) + Val(x \ {p})

\* The word of a sequence of hexadecimal digits, most significant first.
Hex(ds) == {p \in 0..(4 * Len(ds) - 1) :
              (ds[Len(ds) - (p \div 4)] \div Pow2(p % 4)) % 2 = 1}

\* A literal made of `k` repetitions of the digit group `g`.
RECURSIVE Rep(_, _)
Rep(g, k) == IF k = 0 THEN <<>> ELSE g \o Rep(g, k - 1)

\* a < b on unsigned integers: the highest bit in which the two words
\* differ is set in b.
WordLess(a, b) == \E p \in b \ a : \A q \in a \ b : q < p

-----------------------------------------------------------------------------
(* Bit-width facts (BitCount).                                             *)

Widths == {8, 16, 32, 64, 128}

BITS_ILOG2(w) == CHOOSE e \in 0..7 : Pow2(e) = w

-----------------------------------------------------------------------------
(* Type tables.                                                            *)

\* The table with the entry `u8, 4 => u32` widened to u64.
InterleaveOutputTable_wide ==
    {<<8, 2, 16>>, <<8, 3, 32>>, <<8, 4, 64>>, <<8, 5, 64>>, <<8, 6, 64>>,
     <<8, 7, 64>>, <<8, 8, 64>>, <<8, 9, 128>>, <<8, 10, 128>>,
     <<8, 11, 128>>, <<8, 12, 128>>, <<8, 13, 128>>, <<8, 14, 128>>,
     <<8, 15, 128>>, <<8, 16, 128>>,
     <<16, 2, 32>>, <<16, 3, 64>>, <<16, 4, 64>>, <<16, 5, 128>>,
     <<16, 6, 128>>, <<16, 7, 128>>, <<16, 8, 128>>,
     <<32, 2, 64>>, <<32, 3, 128>>, <<32, 4, 128>>,
     <<64, 2, 128>>}

\* impl_interleave_output!: (coordinate width, dimension) => index width.
InterleaveOutputTable ==
    {<<8, 2, 16>>, <<8, 3, 32>>, <<8, 4, 32>>, <<8, 5, 64>>, <<8, 6, 64>>,
     <<8, 7, 64>>, <<8, 8, 64>>, <<8, 9, 128>>, <<8, 10, 128>>,
     <<8, 11, 128>>, <<8, 12, 128>>, <<8, 13, 128>>, <<8, 14, 128>>,
     <<8, 15, 128>>, <<8, 16, 128>>,
     <<16, 2, 32>>, <<16, 3, 64>>, <<16, 4, 64>>, <<16, 5, 128>>,
     <<16, 6, 128>>, <<16, 7, 128>>, <<16, 8, 128>>,
     <<32, 2, 64>>, <<32, 3, 128>>, <<32, 4, 128>>,
     <<64, 2, 128>>}

HasInterleaveOutput(w, n) == \E e \in InterleaveOutputTable : e[1] = w /\ e[2] = n

InterleaveOutput(w, n) ==
    (CHOOSE e \in InterleaveOutputTable : e[1] = w /\ e[2] = n)[3]

\* The decode table with `u128 => 16, u16` in the place of `u128 => 16, u8`.
DeinterleaveOutputTable_u16 ==
    {<<16, 2, 8>>, <<32, 2, 16>>, <<32, 3, 8>>, <<32, 4, 8>>,
     <<64, 2, 32>>, <<64, 3, 16>>, <<64, 4, 16>>, <<64, 5, 8>>, <<64, 6, 8>>,
     <<64, 7, 8>>, <<64, 8, 8>>,
     <<128, 2, 64>>, <<128, 3, 32>>, <<128, 4, 32>>, <<128, 5, 16>>,
     <<128, 6, 16>>, <<128, 7, 16>>, <<128, 8, 16>>, <<128, 9, 8>>,
     <<128, 10, 8>>, <<128, 11, 8>>, <<128, 12, 8>>, <<128, 13, 8>>,
     <<128, 14, 8>>, <<128, 15, 8>>, <<128, 16, 16>>}

\* impl_deinterleave_output!: (index width, dimension) => coordinate width.
DeinterleaveOutputTable ==
    {<<16, 2, 8>>, <<32, 2, 16>>, <<32, 3, 8>>, <<32, 4, 8>>,
     <<64, 2, 32>>, <<64, 3, 16>>, <<64, 4, 16>>, <<64, 5, 8>>, <<64, 6, 8>>,
     <<64, 7, 8>>, <<64, 8, 8>>,
     <<128, 2, 64>>, <<128, 3, 32>>, <<128, 4, 32>>, <<128, 5, 16>>,
     <<128, 6, 16>>, <<128, 7, 16>>, <<128, 8, 16>>, <<128, 9, 8>>,
     <<128, 10, 8>>, <<128, 11, 8>>, <<128, 12, 8>>, <<128, 13, 8>>,
     <<128, 14, 8>>, <<128, 15, 8>>, <<128, 16, 8>>}

HasDeinterleaveOutput(W, n) == \E e \in DeinterleaveOutputTable : e[1] = W /\ e[2] = n

DeinterleaveOutput(W, n) ==
    (CHOOSE e \in DeinterleaveOutputTable : e[1] = W /\ e[2] = n)[3]

\* The BMI2 impls without `u64 => 8`.
DeinterleaveBMI2Table_short ==
    {<<16, 2, 32>>, <<32, 2, 32>>, <<32, 3, 32>>, <<32, 4, 32>>,
     <<64, 2, 64>>, <<64, 3, 64>>, <<64, 4, 64>>, <<64, 5, 64>>, <<64, 6, 64>>,
     <<64, 7, 64>>}

\* impl_deinterleave_bmi2_32! / impl_deinterleave_bmi2_64!: (index width,
\* dimension) => width of the pext instruction used.
DeinterleaveBMI2Table ==
    {<<16, 2, 32>>, <<32, 2, 32>>, <<32, 3, 32>>, <<32, 4, 32>>,
     <<64, 2, 64>>, <<64, 3, 64>>, <<64, 4, 64>>, <<64, 5, 64>>, <<64, 6, 64>>,
     <<64, 7, 64>>, <<64, 8, 64>>}

HasDeinterleaveBMI2(W, n) == \E e \in DeinterleaveBMI2Table : e[1] = W /\ e[2] = n

DeinterleaveBMI2Width(W, n) ==
    (CHOOSE e \in DeinterleaveBMI2Table : e[1] = W /\ e[2] = n)[3]

-----------------------------------------------------------------------------
(* Masks and shifts.                                                       *)

\* mask with a left shift in place of the right shift.
mask_shl(W, bits) == unsigned_shl(MaxValue(W), W - bits, W)

\* mask::<T>(bits) = T::max_value().unsigned_shr(T::BITS - bits).
mask(W, bits) == unsigned_shr(MaxValue(W), W - bits, W)

\* The computation of mask::<T>(bits) overflows: the u32 subtraction
\* BITS - bits, or the shift by BITS - bits.
mask_overflows(W, bits) == bits > W \/ ShiftOverflows(W - bits, W)

\* interleave_mask with the number of runs rounded down instead of up.
interleave_mask_floor(W, d, bits) ==
    LET m == mask(W, bits)
        div_dim == W \div d
        div_bits == div_dim \div bits
    IN  UNION {unsigned_shl(m, i * d * bits, W) : i \in 0..(div_bits - 1)}

\* interleave_mask::<T>(dim, bits): the loop ORs mask << (i * dim * bits)
\* for i in 0..ceil_div_bits.
interleave_mask(W, d, bits) ==
    LET m == mask(W, bits)
        ceil_div_dim == (W + d - 1) \div d
        ceil_div_bits == (ceil_div_dim + bits - 1) \div bits
    IN  UNION {unsigned_shl(m, i * d * bits, W) : i \in 0..(ceil_div_bits - 1)}

\* interleave_shift without the `- 1`.
interleave_shift_dim(i, n) == Pow2(i) * n

\* interleave_shift(i, n) = (1 << i) * (n - 1), as a mathematical value:
\* it is negative exactly when the u32 subtraction n - 1 overflows.
interleave_shift(i, n) == Pow2(i) * (n - 1)

\* The u32 computation of interleave_shift(i, n) overflows: the subtraction
\* n - 1, the shift 1 << i, or the product.
interleave_shift_overflows(i, n) ==
    n < 1 \/ i >= 32 \/ (Pow2(i) * (n - 1)) \div 65536 >= 65536

-----------------------------------------------------------------------------
(* Results: a value, a panic, or nothing yet.                              *)

Ok(v) == [tag |-> "ok", val |-> v]
Panic == [tag |-> "panic", val |-> {}]
None == [tag |-> "none", val |-> {}]

-----------------------------------------------------------------------------
(* Software interleave (interleave.rs).                                    *)

\* The loop body with `x << shift_count` in place of `x | (x << shift_count)`.
interleave_stage_moved(x, i, W, n) ==
    LET m == interleave_mask(W, n, Pow2(i))
        shift_count == interleave_shift(i, n)
    IN  unsigned_shl(x, shift_count, W) \cap m

\* The loop body for stage i: x = (x | x.unsigned_shl(shift_count)) & mask.
interleave_stage(x, i, W, n) ==
    LET m == interleave_mask(W, n, Pow2(i))
        shift_count == interleave_shift(i, n)
    IN  (x \cup unsigned_shl(x, shift_count, W)) \cap m

\* The loop `for i in (0..BITS_ILOG2).rev()`: runs the stages k-1 .. 0.
RECURSIVE interleave_stages(_, _, _, _)
interleave_stages(x, k, W, n) ==
    IF k = 0 THEN x
    ELSE interleave_stages(interleave_stage(x, k - 1, W, n), k - 1, W, n)

\* <T as Interleave<N>>::interleave(self): T has width w.
interleave(x, w, n) ==
    interleave_stages(x, BITS_ILOG2(w), InterleaveOutput(w, n), n)

\* index_of for arrays, over the generic interleave: the OR of
\* interleave(array[i]) << i over the axes.
generic_index_of(array, w, n) ==
    LET W == InterleaveOutput(w, n)
    IN  UNION {unsigned_shl(interleave(array[a], w, n), a - 1, W) : a \in 1..n}

-----------------------------------------------------------------------------
(* Software deinterleave (deinterleave.rs).                                *)

\* The call with the stage and the dimension in the order of the private
\* interleave_shift(i, n) of interleave.rs.
deinterleave_shift_exchanged(i, n) == interleave_shift(n, i)

\* `let shift_count = interleave_shift(N as u32, i);` for stage i.  The
\* callee, crate::mask::interleave_shift(u32, u32), is not among the
\* sources (the interleave_shift of mask.rs and lib.rs take const
\* parameters, that of interleave.rs is private to its module); it is the
\* shift distance of the doubling stage, (dim - 1) * 2^stage, called with
\* the dimension first as interleave_mask is on the line above.
deinterleave_shift_count(i, n) == (n - 1) * Pow2(i)

\* The loop body with a left shift.
deinterleave_stage_shl(x, i, W, n) ==
    LET m == interleave_mask(W, n, Pow2(i + 1))
        shift_count == deinterleave_shift_count(i, n)
    IN  (x \cup unsigned_shl(x, shift_count, W)) \cap m

\* The loop body with `x >> shift_count` in place of
\* `x | (x >> shift_count)`.
deinterleave_stage_moved(x, i, W, n) ==
    LET m == interleave_mask(W, n, Pow2(i + 1))
        shift_count == deinterleave_shift_count(i, n)
    IN  unsigned_shr(x, shift_count, W) \cap m

\* The loop body with the mask of interleave's stage i, 1 << i.
deinterleave_stage_mask(x, i, W, n) ==
    LET m == interleave_mask(W, n, Pow2(i))
        shift_count == deinterleave_shift_count(i, n)
    IN  (x \cup unsigned_shr(x, shift_count, W)) \cap m

\* The loop body for stage i:
\* mask = interleave_mask(N as u32, 1 << (i + 1));
\* x = (x | x.unsigned_shr(shift_count)) & mask.
deinterleave_stage(x, i, W, n) ==
    LET m == interleave_mask(W, n, Pow2(i + 1))
        shift_count == deinterleave_shift_count(i, n)
    IN  (x \cup unsigned_shr(x, shift_count, W)) \cap m

\* The loop `for i in 0..BITS_ILOG2`: runs the stages i .. k-1.
RECURSIVE deinterleave_stages(_, _, _, _, _)
deinterleave_stages(x, i, k, W, n) ==
    IF i >= k THEN x
    ELSE deinterleave_stages(deinterleave_stage(x, i, W, n), i + 1, k, W, n)

\* deinterleave without `self >> lsb`.
deinterleave_no_lsb(v, lsb, W, n) ==
    LET w == DeinterleaveOutput(W, n)
        x == v \cap interleave_mask(W, n, 1)
    IN  Cast(deinterleave_stages(x, 0, BITS_ILOG2(w), W, n), w)

\* deinterleave with the loop one stage short, `0..BITS_ILOG2 - 1`.
deinterleave_short(v, lsb, W, n) ==
    LET w == DeinterleaveOutput(W, n)
        x == Shr(v, lsb) \cap interleave_mask(W, n, 1)
    IN  Cast(deinterleave_stages(x, 0, BITS_ILOG2(w) - 1, W, n), w)

\* deinterleave that returns x without the narrowing `x.as_()`.
deinterleave_uncast(v, lsb, W, n) ==
    LET w == DeinterleaveOutput(W, n)
        x == Shr(v, lsb) \cap interleave_mask(W, n, 1)
    IN  deinterleave_stages(x, 0, BITS_ILOG2(w), W, n)

\* <T as Deinterleave<N>>::deinterleave(self, lsb) without overflow checks:
\* T has width W, the output has width DeinterleaveOutput(W, n).
deinterleave(v, lsb, W, n) ==
    LET w == DeinterleaveOutput(W, n)
        x == Shr(v, lsb) \cap interleave_mask(W, n, 1)
    IN  Cast(deinterleave_stages(x, 0, BITS_ILOG2(w), W, n), w)

\* Array decode: coords[i] = deinterleave(index, lsb = i).
array_coord_of(v, W, n) == [a \in 1..n |-> deinterleave(v, a - 1, W, n)]

-----------------------------------------------------------------------------
(* The shift amounts the software paths compute, as mathematical values.   *)

\* The shifts of interleave_mask with a loop that runs once more,
\* `0..=ceil_div_bits`.
interleave_mask_shifts_extra(W, d, bits) ==
    LET ceil_div_dim == (W + d - 1) \div d
        ceil_div_bits == (ceil_div_dim + bits - 1) \div bits
    IN  {W - bits} \cup {i * d * bits : i \in 0..ceil_div_bits}

\* interleave_mask::<T>(dim, bits): BITS - bits inside mask(bits), then
\* i * dim * bits for every i of the loop.
interleave_mask_shifts(W, d, bits) ==
    LET ceil_div_dim == (W + d - 1) \div d
        ceil_div_bits == (ceil_div_dim + bits - 1) \div bits
    IN  {W - bits} \cup {i * d * bits : i \in 0..(ceil_div_bits - 1)}

\* interleave of a T of width w: per stage the shift distance and the shifts
\* of that stage's mask.
interleave_shifts(w, n) ==
    LET W == InterleaveOutput(w, n)
    IN  UNION {{interleave_shift(i, n)} \cup interleave_mask_shifts(W, n, Pow2(i)) :
               i \in 0..(BITS_ILOG2(w) - 1)}

\* deinterleave(self, lsb) of a T of width W: the axis shift, the shifts of
\* the first mask, then per stage the shift distance and the mask's shifts.
deinterleave_shifts(W, n, lsb) ==
    {lsb} \cup interleave_mask_shifts(W, n, 1)
        \cup UNION {{deinterleave_shift_count(i, n)}
                       \cup interleave_mask_shifts(W, n, Pow2(i + 1)) :
                    i \in 0..(BITS_ILOG2(DeinterleaveOutput(W, n)) - 1)}

\* Stage i of interleave into width W overflows in its shift distance or
\* in its mask.
interleave_stage_overflows(i, W, n) ==
    \/ interleave_shift_overflows(i, n)
    \/ ShiftOverflows(interleave_shift(i, n), W)
    \/ \E s \in interleave_mask_shifts(W, n, Pow2(i)) : ShiftOverflows(s, W)

\* Some shift of interleave overflows: with overflow checks the call panics.
interleave_overflows(w, n) ==
    \E i \in 0..(BITS_ILOG2(w) - 1) :
        interleave_stage_overflows(i, InterleaveOutput(w, n), n)

\* Some shift of deinterleave overflows: with overflow checks the call
\* panics.  The shifts are those of the entry mask and, per stage, the
\* shift distance (a u32) and those of the stage's mask.
deinterleave_overflows(W, n) ==
    \/ \E s \in interleave_mask_shifts(W, n, 1) : ShiftOverflows(s, W)
    \/ \E i \in 0..(BITS_ILOG2(DeinterleaveOutput(W, n)) - 1) :
          \/ interleave_shift_overflows(i, n)
          \/ ShiftOverflows(deinterleave_shift_count(i, n), W)
          \/ \E s \in interleave_mask_shifts(W, n, Pow2(i + 1)) :
                ShiftOverflows(s, W)

-----------------------------------------------------------------------------
(* BMI2 instructions and the BMI2 deinterleave.                            *)

Rank(m, p) == Cardinality({q \in m : q < p})

\* _pdep: the k-th lowest set bit of the mask receives bit k of a.
pdep(a, m) == {p \in m : Rank(m, p) \in a}

\* _pext: bit k of the result is the bit of a under the k-th lowest set bit
\* of the mask.
pext(a, m) == {Rank(m, p) : p \in a \cap m}

\* deinterleave_bmi2(self, lsb): pext under interleave_mask(dim, 1) << lsb.
deinterleave_bmi2(v, lsb, W, n) ==
    LET PW == DeinterleaveBMI2Width(W, n)
        m == Shl(interleave_mask(PW, n, 1), lsb, PW)
    IN  Cast(pext(Cast(v, PW), m), DeinterleaveOutput(W, n))

array_coord_of_bmi2(v, W, n) == [a \in 1..n |-> deinterleave_bmi2(v, a - 1, W, n)]

-----------------------------------------------------------------------------
(* Literal masks of the 2D functions (lib.rs).                             *)

M_00FF(W) == Hex(Rep(<<0, 0, 15, 15>>, W \div 16))
M_0F0F(W) == Hex(Rep(<<0, 15>>, W \div 8))
M_3333(W) == Hex(Rep(<<3>>, W \div 4))
M_5555(W) == Hex(Rep(<<5>>, W \div 4))
M_AAAA(W) == Hex(Rep(<<10>>, W \div 4))
M_0000FFFF(W) == Hex(Rep(<<0, 0, 0, 0, 15, 15, 15, 15>>, W \div 32))

-----------------------------------------------------------------------------
(* The hand-written mask table (mask.rs, lib.rs).                          *)

\* MASK_5_DIM_2 = 0x00000000FFFFFFFF00000000FFFFFFFF
MASK_5_DIM_2 ==
    Hex(<<0, 0, 0, 0, 0, 0, 0, 0, 15, 15, 15, 15, 15, 15, 15, 15,
          0, 0, 0, 0, 0, 0, 0, 0, 15, 15, 15, 15, 15, 15, 15, 15>>)

\* MASK_4_DIM_2 = 0x0000FFFF0000FFFF0000FFFF0000FFFF
MASK_4_DIM_2 ==
    Hex(<<0, 0, 0, 0, 15, 15, 15, 15, 0, 0, 0, 0, 15, 15, 15, 15,
          0, 0, 0, 0, 15, 15, 15, 15, 0, 0, 0, 0, 15, 15, 15, 15>>)

\* MASK_3_DIM_2 = 0x00FF00FF00FF00FF00FF00FF00FF00FF
MASK_3_DIM_2 ==
    Hex(<<0, 0, 15, 15, 0, 0, 15, 15, 0, 0, 15, 15, 0, 0, 15, 15,
          0, 0, 15, 15, 0, 0, 15, 15, 0, 0, 15, 15, 0, 0, 15, 15>>)

\* MASK_2_DIM_2 = 0x0F0F0F0F0F0F0F0F0F0F0F0F0F0F0F0F
MASK_2_DIM_2 ==
    Hex(<<0, 15, 0, 15, 0, 15, 0, 15, 0, 15, 0, 15, 0, 15, 0, 15,
          0, 15, 0, 15, 0, 15, 0, 15, 0, 15, 0, 15, 0, 15, 0, 15>>)

\* MASK_1_DIM_2 = 0x33333333333333333333333333333333
MASK_1_DIM_2 ==
    Hex(<<3, 3, 3, 3, 3, 3, 3, 3, 3, 3, 3, 3, 3, 3, 3, 3,
          3, 3, 3, 3, 3, 3, 3, 3, 3, 3, 3, 3, 3, 3, 3, 3>>)

\* MASK_0_DIM_2 = 0x55555555555555555555555555555555
MASK_0_DIM_2 ==
    Hex(<<5, 5, 5, 5, 5, 5, 5, 5, 5, 5, 5, 5, 5, 5, 5, 5,
          5, 5, 5, 5, 5, 5, 5, 5, 5, 5, 5, 5, 5, 5, 5, 5>>)

\* MASK_4_DIM_3 = 0x0000FFFF00000000FFFF00000000FFFF
MASK_4_DIM_3 ==
    Hex(<<0, 0, 0, 0, 15, 15, 15, 15, 0, 0, 0, 0, 0, 0, 0, 0,
          15, 15, 15, 15, 0, 0, 0, 0, 0, 0, 0, 0, 15, 15, 15, 15>>)

\* MASK_3_DIM_3 = 0xFF0000FF0000FF0000FF0000FF0000FF
MASK_3_DIM_3 ==
    Hex(<<15, 15, 0, 0, 0, 0, 15, 15, 0, 0, 0, 0, 15, 15, 0, 0,
          0, 0, 15, 15, 0, 0, 0, 0, 15, 15, 0, 0, 0, 0, 15, 15>>)

\* MASK_2_DIM_3 = 0x0F00F00F00F00F00F00F00F00F00F00F
MASK_2_DIM_3 ==
    Hex(<<0, 15, 0, 0, 15, 0, 0, 15, 0, 0, 15, 0, 0, 15, 0, 0,
          15, 0, 0, 15, 0, 0, 15, 0, 0, 15, 0, 0, 15, 0, 0, 15>>)

\* MASK_1_DIM_3 = 0xC30C30C30C30C30C30C30C30C30C30C3
MASK_1_DIM_3 ==
    Hex(<<12, 3, 0, 12, 3, 0, 12, 3, 0, 12, 3, 0, 12, 3, 0, 12,
          3, 0, 12, 3, 0, 12, 3, 0, 12, 3, 0, 12, 3, 0, 12, 3>>)

\* MASK_0_DIM_3 = 0x49249249249249249249249249249249
MASK_0_DIM_3 ==
    Hex(<<4, 9, 2, 4, 9, 2, 4, 9, 2, 4, 9, 2, 4, 9, 2, 4,
          9, 2, 4, 9, 2, 4, 9, 2, 4, 9, 2, 4, 9, 2, 4, 9>>)

\* MASK_4_DIM_4 = 0x000000000000FFFF000000000000FFFF
MASK_4_DIM_4 ==
    Hex(<<0, 0, 0, 0, 0, 0, 0, 0, 0, 0, 0, 0, 15, 15, 15, 15,
          0, 0, 0, 0, 0, 0, 0, 0, 0, 0, 0, 0, 15, 15, 15, 15>>)

\* MASK_3_DIM_4 = 0x000000FF000000FF000000FF000000FF
MASK_3_DIM_4 ==
    Hex(<<0, 0, 0, 0, 0, 0, 15, 15, 0, 0, 0, 0, 0, 0, 15, 15,
          0, 0, 0, 0, 0, 0, 15, 15, 0, 0, 0, 0, 0, 0, 15, 15>>)

\* MASK_2_DIM_4 = 0x000F000F000F000F000F000F000F000F
MASK_2_DIM_4 ==
    Hex(<<0, 0, 0, 15, 0, 0, 0, 15, 0, 0, 0, 15, 0, 0, 0, 15,
          0, 0, 0, 15, 0, 0, 0, 15, 0, 0, 0, 15, 0, 0, 0, 15>>)

\* MASK_1_DIM_4 = 0x03030303030303030303030303030303
MASK_1_DIM_4 ==
    Hex(<<0, 3, 0, 3, 0, 3, 0, 3, 0, 3, 0, 3, 0, 3, 0, 3,
          0, 3, 0, 3, 0, 3, 0, 3, 0, 3, 0, 3, 0, 3, 0, 3>>)

\* MASK_0_DIM_4 = 0x11111111111111111111111111111111
MASK_0_DIM_4 ==
    Hex(<<1, 1, 1, 1, 1, 1, 1, 1, 1, 1, 1, 1, 1, 1, 1, 1,
          1, 1, 1, 1, 1, 1, 1, 1, 1, 1, 1, 1, 1, 1, 1, 1>>)

\* The stages that have a constant: 0..5 for dimension 2, 0..4 for 3 and 4.
HasMaskConstant(k, d) ==
    \/ d = 2 /\ k \in 0..5
    \/ d \in {3, 4} /\ k \in 0..4

\* MASK_k_DIM_d.
MaskConstant(k, d) ==
    CASE k = 5 /\ d = 2 -> MASK_5_DIM_2
      [] k = 4 /\ d = 2 -> MASK_4_DIM_2
      [] k = 3 /\ d = 2 -> MASK_3_DIM_2
      [] k = 2 /\ d = 2 -> MASK_2_DIM_2
      [] k = 1 /\ d = 2 -> MASK_1_DIM_2
      [] k = 0 /\ d = 2 -> MASK_0_DIM_2
      [] k = 4 /\ d = 3 -> MASK_4_DIM_3
      [] k = 3 /\ d = 3 -> MASK_3_DIM_3
      [] k = 2 /\ d = 3 -> MASK_2_DIM_3
      [] k = 1 /\ d = 3 -> MASK_1_DIM_3
      [] k = 0 /\ d = 3 -> MASK_0_DIM_3
      [] k = 4 /\ d = 4 -> MASK_4_DIM_4
      [] k = 3 /\ d = 4 -> MASK_3_DIM_4
      [] k = 2 /\ d = 4 -> MASK_2_DIM_4
      [] k = 1 /\ d = 4 -> MASK_1_DIM_4
      [] k = 0 /\ d = 4 -> MASK_0_DIM_4

-----------------------------------------------------------------------------
(* The other software interleave implementations (lib.rs, mask.rs).        *)

\* impl Mask<N> for T { type Output = O }: (width of T, N, width of O).
MaskOutputTable ==
    {<<8, 2, 16>>, <<8, 3, 32>>, <<8, 4, 32>>,
     <<16, 2, 32>>, <<16, 3, 64>>, <<16, 4, 64>>,
     <<32, 2, 64>>, <<32, 3, 128>>, <<32, 4, 128>>,
     <<64, 2, 128>>}

MaskOutput(w, n) ==
    (CHOOSE e \in MaskOutputTable : e[1] = w /\ e[2] = n)[3]

\* <T as Mask<N>>::MASK_I: `MASK_I_DIM_N as Self::Output` for the stages
\* I < log2(BITS of T) that DimMask::interleave runs, 0 for the others
\* ("Unused masks").
MASK(i, w, n) ==
    IF i < BITS_ILOG2(w) THEN Cast(MaskConstant(i, n), MaskOutput(w, n)) ELSE {}

\* impl Interleave for u8 (lib.rs): the hard-coded two-dimensional spread.
interleave_u8(v) ==
    LET x0 == Cast(v, 16)
        x1 == (x0 \cup Shl(x0, 4, 16)) \cap Hex(<<0, 15, 0, 15>>)
        x2 == (x1 \cup Shl(x1, 2, 16)) \cap Hex(<<3, 3, 3, 3>>)
        x3 == (x2 \cup Shl(x2, 1, 16)) \cap Hex(<<5, 5, 5, 5>>)
    IN  x3

\* impl Interleave for u16 (lib.rs).
interleave_u16(v) ==
    LET x0 == Cast(v, 32)
        x1 == (x0 \cup Shl(x0, 8, 32)) \cap M_00FF(32)
        x2 == (x1 \cup Shl(x1, 4, 32)) \cap M_0F0F(32)
        x3 == (x2 \cup Shl(x2, 2, 32)) \cap M_3333(32)
        x4 == (x3 \cup Shl(x3, 1, 32)) \cap M_5555(32)
    IN  x4

\* impl Interleave for u32 (lib.rs).
interleave_u32(v) ==
    LET x0 == Cast(v, 64)
        x1 == (x0 \cup Shl(x0, 16, 64)) \cap M_0000FFFF(64)
        x2 == (x1 \cup Shl(x1, 8, 64)) \cap M_00FF(64)
        x3 == (x2 \cup Shl(x2, 4, 64)) \cap M_0F0F(64)
        x4 == (x3 \cup Shl(x3, 2, 64)) \cap M_3333(64)
        x5 == (x4 \cup Shl(x4, 1, 64)) \cap M_5555(64)
    IN  x5

\* impl Interleave for u64 (lib.rs).
interleave_u64(v) ==
    LET x0 == Cast(v, 128)
        x1 == (x0 \cup Shl(x0, 32, 128))
                 \cap Hex(Rep(<<0, 0, 0, 0, 0, 0, 0, 0,
                                15, 15, 15, 15, 15, 15, 15, 15>>, 2))
        x2 == (x1 \cup Shl(x1, 16, 128)) \cap M_0000FFFF(128)
        x3 == (x2 \cup Shl(x2, 8, 128)) \cap M_00FF(128)
        x4 == (x3 \cup Shl(x3, 4, 128)) \cap M_0F0F(128)
        x5 == (x4 \cup Shl(x4, 2, 128)) \cap M_3333(128)
        x6 == (x5 \cup Shl(x5, 1, 128)) \cap M_5555(128)
    IN  x6

\* <T as Interleave>::interleave(self) of lib.rs, T of width w.
lib_interleave(v, w) ==
    CASE w = 8 -> interleave_u8(v)
      [] w = 16 -> interleave_u16(v)
      [] w = 32 -> interleave_u32(v)
      [] w = 64 -> interleave_u64(v)

\* A DimMask line that forgets its mask.
dimmask_stage_unmasked(x, i, w, n) ==
    x \cup Shl(x, interleave_shift(i, n), MaskOutput(w, n))

\* One line of DimMask::interleave (lib.rs):
\* x = (x | (x << interleave_shift::<I, N>())) & <T as Mask<N>>::MASK_I.
dimmask_stage(x, i, w, n) ==
    (x \cup Shl(x, interleave_shift(i, n), MaskOutput(w, n))) \cap MASK(i, w, n)

\* The lines I = k-1 .. 0 of DimMask::interleave.
RECURSIVE dimmask_stages(_, _, _, _)
dimmask_stages(x, k, w, n) ==
    IF k = 0 THEN x
    ELSE dimmask_stages(dimmask_stage(x, k - 1, w, n), k - 1, w, n)

\* <T as DimMask<N>>::interleave(self) of lib.rs.
dimmask_interleave(v, w, n) ==
    dimmask_stages(Cast(v, MaskOutput(w, n)), BITS_ILOG2(w), w, n)

\* One line of the unrolled Interleave<N> (mask.rs):
\* x = (x | (x << interleave_shift::<I, N>())) & interleave_mask(N, 1 << I).
unrolled_stage(x, i, w, n) ==
    (x \cup Shl(x, interleave_shift(i, n), MaskOutput(w, n)))
        \cap interleave_mask(MaskOutput(w, n), n, Pow2(i))

\* The lines I = k-1 .. 0 of the unrolled Interleave<N>.
RECURSIVE unrolled_stages(_, _, _, _)
unrolled_stages(x, k, w, n) ==
    IF k = 0 THEN x
    ELSE unrolled_stages(unrolled_stage(x, k - 1, w, n), k - 1, w, n)

\* <T as Interleave<N>>::interleave(self) of mask.rs.
unrolled_interleave(v, w, n) ==
    unrolled_stages(Cast(v, MaskOutput(w, n)), BITS_ILOG2(w), w, n)

\* array_index_of (lib.rs): the fold of acc | (n << i) over the
\* DimMask::interleave of the axes; it exists where I: DimMask<N>.
array_index_of(array, w, n) ==
    LET W == MaskOutput(w, n)
    IN  UNION {unsigned_shl(dimmask_interleave(array[a], w, n), a - 1, W) :
                 a \in 1..n}

\* With overflow checks `x << s` panics when s is not below the width.
shl_overflows(w, n) ==
    \E i \in 0..(BITS_ILOG2(w) - 1) :
        ShiftOverflows(interleave_shift(i, n), MaskOutput(w, n))

\* The implementations that exist for dimension n: the hard-coded one is
\* two-dimensional.
Implementations(n) ==
    IF n = 2 THEN {"lib", "dimmask", "unrolled", "generic"}
    ELSE {"dimmask", "unrolled", "generic"}

-----------------------------------------------------------------------------
(* The 2D functions (lib.rs).  A coordinate pair is <<x, y>>.              *)

\* index_of with y taken from fourth >> 32 instead of fourth >> 31.
index_of_shift32(xy) ==
    LET packed == xy[1] \cup Shl(xy[2], 32, 64)
        first  == (packed \cup Shl(packed, 8, 64)) \cap M_00FF(64)
        second == (first \cup Shl(first, 4, 64)) \cap M_0F0F(64)
        third  == (second \cup Shl(second, 2, 64)) \cap M_3333(64)
        fourth == (third \cup Shl(third, 1, 64)) \cap M_5555(64)
        x == fourth
        y == Shr(fourth, 32)
    IN  Cast(x \cup y, 32)

\* index_of((x, y): (u16, u16)) -> u32, both axes in one packed u64 pass.
index_of(xy) ==
    LET packed == xy[1] \cup Shl(xy[2], 32, 64)
        first  == (packed \cup Shl(packed, 8, 64)) \cap M_00FF(64)
        second == (first \cup Shl(first, 4, 64)) \cap M_0F0F(64)
        third  == (second \cup Shl(second, 2, 64)) \cap M_3333(64)
        fourth == (third \cup Shl(third, 1, 64)) \cap M_5555(64)
        x == fourth
        y == Shr(fourth, 31)
    IN  Cast(x \cup y, 32)

\* index_of_64 with y taken from fifth >> 64 instead of fifth >> 63.
index_of_64_shift64(xy) ==
    LET packed == xy[1] \cup Shl(xy[2], 64, 128)
        first  == (packed \cup Shl(packed, 16, 128)) \cap M_0000FFFF(128)
        second == (first \cup Shl(first, 8, 128)) \cap M_00FF(128)
        third  == (second \cup Shl(second, 4, 128)) \cap M_0F0F(128)
        fourth == (third \cup Shl(third, 2, 128)) \cap M_3333(128)
        fifth  == (fourth \cup Shl(fourth, 1, 128)) \cap M_5555(128)
        x == fifth
        y == Shr(fifth, 64)
    IN  Cast(x \cup y, 64)

\* index_of_64((x, y): (u32, u32)) -> u64, both axes in one packed u128 pass.
index_of_64(xy) ==
    LET packed == xy[1] \cup Shl(xy[2], 64, 128)
        first  == (packed \cup Shl(packed, 16, 128)) \cap M_0000FFFF(128)
        second == (first \cup Shl(first, 8, 128)) \cap M_00FF(128)
        third  == (second \cup Shl(second, 4, 128)) \cap M_0F0F(128)
        fourth == (third \cup Shl(third, 2, 128)) \cap M_3333(128)
        fifth  == (fourth \cup Shl(fourth, 1, 128)) \cap M_5555(128)
        x == fifth
        y == Shr(fifth, 63)
    IN  Cast(x \cup y, 64)

\* single_pass(val: u64) of index_of_64_dual_pass.
single_pass(val) ==
    LET v1 == (val \cup Shl(val, 8, 64)) \cap M_00FF(64)
        v2 == (v1 \cup Shl(v1, 4, 64)) \cap M_0F0F(64)
        v3 == (v2 \cup Shl(v2, 2, 64)) \cap M_3333(64)
        v4 == (v3 \cup Shl(v3, 1, 64)) \cap M_5555(64)
    IN  v4

\* index_of_64_dual_pass((x, y): (u32, u32)) -> u64.
index_of_64_dual_pass(xy) ==
    LET x == single_pass(xy[1])
        y == single_pass(xy[2])
    IN  x \cup Shl(y, 1, 64)

\* coord_of without the last gathering step (fourth = third).
coord_of_short(idx) ==
    LET wide_idx == idx
        packed == (wide_idx \cap M_5555(32)) \cup Shl(wide_idx \cap M_AAAA(32), 31, 64)
        first  == (packed \cup Shr(packed, 1)) \cap M_3333(64)
        second == (first \cup Shr(first, 2)) \cap M_0F0F(64)
        third  == (second \cup Shr(second, 4)) \cap M_00FF(64)
        fourth == third
    IN  <<Cast(fourth, 16), Cast(Shr(fourth, 32), 16)>>

\* coord_of(idx: u32) -> (u16, u16).
coord_of(idx) ==
    LET wide_idx == idx
        packed == (wide_idx \cap M_5555(32)) \cup Shl(wide_idx \cap M_AAAA(32), 31, 64)
        first  == (packed \cup Shr(packed, 1)) \cap M_3333(64)
        second == (first \cup Shr(first, 2)) \cap M_0F0F(64)
        third  == (second \cup Shr(second, 4)) \cap M_00FF(64)
        fourth == third \cup Shr(third, 8)
    IN  <<Cast(fourth, 16), Cast(Shr(fourth, 32), 16)>>

\* coord_of_64(idx: u64) -> (u32, u32).
coord_of_64(idx) ==
    LET wide_idx == idx
        packed == (wide_idx \cap M_5555(64)) \cup Shl(wide_idx \cap M_AAAA(64), 63, 128)
        first  == (packed \cup Shr(packed, 1)) \cap M_3333(128)
        second == (first \cup Shr(first, 2)) \cap M_0F0F(128)
        third  == (second \cup Shr(second, 4)) \cap M_00FF(128)
        fourth == (third \cup Shr(third, 8)) \cap M_0000FFFF(128)
        fifth  == fourth \cup Shr(fourth, 16)
    IN  <<Cast(fifth, 32), Cast(Shr(fifth, 64), 32)>>

\* bmi2::index_of: _pdep_u32 under 0x55555555 and 0xAAAAAAAA.
bmi2_index_of(xy) == pdep(xy[1], M_5555(32)) \cup pdep(xy[2], M_AAAA(32))

\* bmi2::index_of_64: _pdep_u64.
bmi2_index_of_64(xy) == pdep(xy[1], M_5555(64)) \cup pdep(xy[2], M_AAAA(64))

\* bmi2::coord_of: _pext_u32, results cast to u16.
bmi2_coord_of(idx) ==
    <<Cast(pext(idx, M_5555(32)), 16), Cast(pext(idx, M_AAAA(32)), 16)>>

\* bmi2::coord_of_64 with the two masks exchanged.
bmi2_coord_of_64_swapped(idx) ==
    <<Cast(pext(idx, M_AAAA(64)), 32), Cast(pext(idx, M_5555(64)), 32)>>

\* bmi2::coord_of_64: _pext_u64, results cast to u32.
bmi2_coord_of_64(idx) ==
    <<Cast(pext(idx, M_5555(64)), 32), Cast(pext(idx, M_AAAA(64)), 32)>>

-----------------------------------------------------------------------------
(* Inputs.                                                                 *)

\* Words of width K with one run of at most MaxRun set bits, or none.
Runs(K) == {{}} \cup {{p \in 0..(K - 1) : s <= p /\ p < s + len} :
                        s \in 0..(K - 1), len \in 1..MaxRun}

\* Those words and their complements within width K.
Words(K) == Runs(K) \cup {(0..(K - 1)) \ r : r \in Runs(K)}

\* The coordinate array whose axes, laid side by side, form the word S of
\* width n * w: axis a (1-based) holds the bits (a-1)*w .. a*w - 1 of S.
CoordsOf(S, w, n) ==
    [a \in 1..n |-> {q - (a - 1) * w : q \in {r \in S : (a - 1) * w <= r /\ r < a * w}}]

CoordInputs(w, n) == {CoordsOf(S, w, n) : S \in Words(n * w)}

\* Index values of width W for (w, n): any sparse or dense word of the full
\* width, and the dense words confined to the n * w bits an encode can set.
IndexInputs(W, w, n) == Words(W) \cup Words(n * w)

\* The pair (1, 1) of the crate's documented examples and its index 3.
DocCoords == <<Hex(<<1>>), Hex(<<1>>)>>
DocIndex == Hex(<<3>>)

\* The worked example: the coordinates [3, 7] and the index 47 = 0x2F.
ExampleCoords == <<Hex(<<3>>), Hex(<<7>>)>>
ExampleIndex == Hex(<<2, 15>>)

\* The index values of the tests deinterleave_dim2_u64 and
\* odd_large_dimension_interleave: 0x5555...5555 and
\* 0x0800_4002_0010_0080_0400_2001 (the bits 0, 13, 26, .., 91).
TestIndexDim13 ==
    Hex(<<0, 8, 0, 0,  4, 0, 0, 2,  0, 0, 1, 0,  0, 0, 8, 0,  0, 4, 0, 0,  2, 0, 0, 1>>)

\* The literal inputs that fit the pair (w, n).
LiteralCoords(w, n) == IF n = 2 THEN {DocCoords, ExampleCoords} ELSE {}

LiteralIndexes(W, n) ==
    (IF n = 2 THEN {DocIndex, ExampleIndex} ELSE {})
        \cup (IF W = 128 /\ n = 2 THEN {Hex(Rep(<<5>>, 32))} ELSE {})
        \cup (IF W = 128 /\ n = 13 THEN {TestIndexDim13} ELSE {})

PowersOfTwo(W) == {b \in 1..W : \E e \in 0..7 : Pow2(e) = b}

TypeDims == {<<e[1], e[2]>> : e \in InterleaveOutputTable}

\* The 2D functions exist for (u16, u16) -> u32 and (u32, u32) -> u64.
FixedTypeDims == {<<16, 2>>, <<32, 2>>}

Builds == {"debug", "release"}

-----------------------------------------------------------------------------
(* Initial states: the caller has chosen a function family, its type       *)
(* parameters and an input; nothing has been computed yet.                 *)

Blank ==
    /\ decoded = None /\ reindex = None /\ hw_index = None
    /\ hw_decoded = None /\ dual = None /\ mres = None /\ outty = None
    /\ dety = None /\ hwty = None
    /\ last_shift = None /\ index2 = None
    /\ wide = None

\* No thread runs one of the example programs.
NoThreads ==
    /\ prog = <<>> /\ pc = <<>> /\ detected = <<>> /\ token = <<>>
    /\ pos = <<>> /\ hw_calls = <<>>

InitCoords ==
    /\ given = "coords"
    /\ \E a \in {"array", "fixed"} :
         /\ api = a
         /\ \E td \in (IF a = "array" THEN TypeDims ELSE FixedTypeDims) :
              /\ ty = td[1] /\ dim = td[2]
              /\ \E c \in CoordInputs(td[1], td[2])
                          \cup LiteralCoords(td[1], td[2]) : coords = Ok(c)
    /\ index = None
    /\ margs = <<>>

\* The (I, N) pairs array_index_of of lib.rs accepts: those with a Mask<N>.
MaskTypeDims == {<<e[1], e[2]>> : e \in MaskOutputTable}

\* The caller holds an array for array_index_of of lib.rs.
InitArrayIndexOf ==
    /\ given = "coords" /\ api = "array_index_of"
    /\ \E td \in MaskTypeDims :
         /\ ty = td[1] /\ dim = td[2]
         /\ \E c \in CoordInputs(td[1], td[2])
                     \cup LiteralCoords(td[1], td[2]) : coords = Ok(c)
    /\ index = None
    /\ margs = <<>>

InitIndex ==
    /\ given = "index"
    /\ \E a \in {"array", "fixed"} :
         /\ api = a
         /\ \E td \in (IF a = "array" THEN TypeDims ELSE FixedTypeDims) :
              /\ ty = td[1] /\ dim = td[2]
              /\ \E v \in IndexInputs(InterleaveOutput(td[1], td[2]), td[1], td[2])
                          \cup LiteralIndexes(InterleaveOutput(td[1], td[2]), td[2]) :
                   index = Ok(v)
    /\ coords = None
    /\ margs = <<>>

InitMask ==
    /\ given = "mask" /\ api = "mask"
    /\ ty = 0 /\ dim = 0
    /\ \E W \in Widths, d \in 1..MaxDim :
         \E b \in PowersOfTwo(W) : margs = <<W, d, b>>
    /\ coords = None /\ index = None

InitType ==
    /\ given = "type" /\ api = "types"
    /\ ty \in Widths
    /\ dim \in 2..MaxDim
    /\ margs = <<>>
    /\ coords = None /\ index = None

\* The caller names an index type of width ty and a dimension for decoding.
InitDecodeType ==
    /\ given = "type" /\ api = "decode types"
    /\ ty \in Widths
    /\ dim \in 2..MaxDim
    /\ margs = <<>>
    /\ coords = None /\ index = None

\* The (coordinate width, dimension, output width) triples the interleave
\* stages are followed on: the rows of the table.
StageTypeDims == InterleaveOutputTable

\* The caller holds one coordinate and follows interleave stage by stage.
InitStages ==
    /\ given = "coords" /\ api = "stages"
    /\ \E e \in StageTypeDims :
         /\ ty = e[1] /\ dim = e[2] /\ margs = <<e[3]>>
         /\ \E v \in Words(e[1]) : coords = Ok(<<v>>)
    /\ index = None

\* A call mask::<T>(bits) with any bit count from 0 to twice the width.
InitLowMask ==
    /\ given = "mask" /\ api = "low mask"
    /\ ty = 0 /\ dim = 0
    /\ \E W \in Widths : \E b \in 0..(2 * W) : margs = <<W, b>>
    /\ coords = None /\ index = None

\* The functions are called directly, on a CPU that has BMI2 (the
\* precondition of the bmi2 functions).
Init ==
    /\ build \in Builds
    /\ cpu_bmi2 = TRUE
    /\ NoThreads
    /\ Blank
    /\ coords2 = None /\ outs = <<>>
    /\ stage = 0
    /\ (InitCoords \/ InitArrayIndexOf \/ InitIndex \/ InitMask \/ InitType
            \/ InitDecodeType \/ InitStages \/ InitLowMask)

-----------------------------------------------------------------------------
(* Actions: one per function of the crate.                                 *)

IndexWidth == InterleaveOutput(ty, dim)

\* Generic encode of the array the caller holds: the given coordinates
\* into `index`, or the decoded ones into `reindex`.
\* With overflow checks a call whose shift computation overflows panics.
GenericIndexOf ==
    /\ api = "array"
    /\ \/ /\ given = "coords" /\ index.tag = "none"
          /\ index' = IF build = "debug" /\ interleave_overflows(ty, dim)
                      THEN Panic
                      ELSE Ok(generic_index_of(coords.val, ty, dim))
          /\ UNCHANGED reindex
       \/ /\ given = "index" /\ decoded.tag = "ok" /\ reindex.tag = "none"
          /\ reindex' = IF build = "debug" /\ interleave_overflows(ty, dim)
                        THEN Panic
                        ELSE Ok(generic_index_of(decoded.val, ty, dim))
          /\ UNCHANGED index
    /\ UNCHANGED <<build, api, ty, dim, given, coords, decoded, hw_index,
                   hw_decoded, dual, margs, mres, outty>>
    /\ UNCHANGED <<stage, dety, hwty, cpu_bmi2, prog, pc, detected, token, pos,
                   hw_calls>>
    /\ UNCHANGED <<last_shift, coords2, index2, wide, outs>>

\* array_index_of of lib.rs on the array the caller holds.
ArrayIndexOf ==
    /\ api = "array_index_of" /\ index.tag = "none"
    /\ index' = IF build = "debug" /\ shl_overflows(ty, dim)
                THEN Panic
                ELSE Ok(array_index_of(coords.val, ty, dim))
    /\ UNCHANGED <<build, api, ty, dim, given, coords, decoded, reindex,
                   hw_index, hw_decoded, dual, margs, mres, outty, stage, dety,
                   hwty, cpu_bmi2, prog, pc, detected, token, pos, hw_calls,
                   last_shift, coords2, index2, wide, outs>>

\* Generic software decode of the index the caller holds.  With overflow
\* checks a shift that overflows panics.
ArrayCoordOf ==
    /\ api = "array"
    /\ index.tag = "ok" /\ decoded.tag = "none"
    /\ decoded' = IF build = "debug" /\ deinterleave_overflows(IndexWidth, dim)
                  THEN Panic
                  ELSE Ok(array_coord_of(index.val, IndexWidth, dim))
    /\ UNCHANGED <<build, api, ty, dim, given, coords, index, reindex, hw_index,
                   hw_decoded, dual, margs, mres, outty>>
    /\ UNCHANGED <<stage, dety, hwty, cpu_bmi2, prog, pc, detected, token, pos,
                   hw_calls>>
    /\ UNCHANGED <<last_shift, coords2, index2, wide, outs>>

\* Generic BMI2 decode, for the (index type, N) pairs that implement it.
ArrayCoordOfBMI2 ==
    /\ api = "array"
    /\ cpu_bmi2
    /\ HasDeinterleaveBMI2(IndexWidth, dim)
    /\ index.tag = "ok" /\ hw_decoded.tag = "none"
    /\ hw_decoded' = Ok(array_coord_of_bmi2(index.val, IndexWidth, dim))
    /\ UNCHANGED <<build, api, ty, dim, given, coords, index, decoded, reindex,
                   hw_index, dual, margs, mres, outty>>
    /\ UNCHANGED <<stage, dety, hwty, cpu_bmi2, prog, pc, detected, token, pos,
                   hw_calls>>
    /\ UNCHANGED <<last_shift, coords2, index2, wide, outs>>

\* index_of((x, y): (u16, u16)) -> u32 on the pair the caller holds.
IndexOf ==
    /\ api = "fixed" /\ ty = 16
    /\ \/ /\ given = "coords" /\ index.tag = "none"
          /\ index' = Ok(index_of(coords.val))
          /\ UNCHANGED reindex
       \/ /\ given = "index" /\ decoded.tag = "ok" /\ reindex.tag = "none"
          /\ reindex' = Ok(index_of(decoded.val))
          /\ UNCHANGED index
    /\ UNCHANGED <<build, api, ty, dim, given, coords, decoded, hw_index,
                   hw_decoded, dual, margs, mres, outty>>
    /\ UNCHANGED <<stage, dety, hwty, cpu_bmi2, prog, pc, detected, token, pos,
                   hw_calls>>
    /\ UNCHANGED <<last_shift, coords2, index2, wide, outs>>

\* index_of_64((x, y): (u32, u32)) -> u64 on the pair the caller holds.
IndexOf64 ==
    /\ api = "fixed" /\ ty = 32
    /\ \/ /\ given = "coords" /\ index.tag = "none"
          /\ index' = Ok(index_of_64(coords.val))
          /\ UNCHANGED reindex
       \/ /\ given = "index" /\ decoded.tag = "ok" /\ reindex.tag = "none"
          /\ reindex' = Ok(index_of_64(decoded.val))
          /\ UNCHANGED index
    /\ UNCHANGED <<build, api, ty, dim, given, coords, decoded, hw_index,
                   hw_decoded, dual, margs, mres, outty>>
    /\ UNCHANGED <<stage, dety, hwty, cpu_bmi2, prog, pc, detected, token, pos,
                   hw_calls>>
    /\ UNCHANGED <<last_shift, coords2, index2, wide, outs>>

\* index_of_64_dual_pass on the given pair of u32 coordinates.
IndexOf64DualPass ==
    /\ api = "fixed" /\ ty = 32
    /\ given = "coords" /\ dual.tag = "none"
    /\ dual' = Ok(index_of_64_dual_pass(coords.val))
    /\ UNCHANGED <<build, api, ty, dim, given, coords, index, decoded, reindex,
                   hw_index, hw_decoded, margs, mres, outty>>
    /\ UNCHANGED <<stage, dety, hwty, cpu_bmi2, prog, pc, detected, token, pos,
                   hw_calls>>
    /\ UNCHANGED <<last_shift, coords2, index2, wide, outs>>

\* coord_of(idx: u32) -> (u16, u16).
CoordOf ==
    /\ api = "fixed" /\ ty = 16
    /\ index.tag = "ok" /\ decoded.tag = "none"
    /\ decoded' = Ok(coord_of(index.val))
    /\ UNCHANGED <<build, api, ty, dim, given, coords, index, reindex, hw_index,
                   hw_decoded, dual, margs, mres, outty>>
    /\ UNCHANGED <<stage, dety, hwty, cpu_bmi2, prog, pc, detected, token, pos,
                   hw_calls>>
    /\ UNCHANGED <<last_shift, coords2, index2, wide, outs>>

\* coord_of_64(idx: u64) -> (u32, u32).
CoordOf64 ==
    /\ api = "fixed" /\ ty = 32
    /\ index.tag = "ok" /\ decoded.tag = "none"
    /\ decoded' = Ok(coord_of_64(index.val))
    /\ UNCHANGED <<build, api, ty, dim, given, coords, index, reindex, hw_index,
                   hw_decoded, dual, margs, mres, outty>>
    /\ UNCHANGED <<stage, dety, hwty, cpu_bmi2, prog, pc, detected, token, pos,
                   hw_calls>>
    /\ UNCHANGED <<last_shift, coords2, index2, wide, outs>>

\* bmi2::index_of on the given pair.
Bmi2IndexOf ==
    /\ api = "fixed" /\ ty = 16
    /\ cpu_bmi2
    /\ given = "coords" /\ hw_index.tag = "none"
    /\ hw_index' = Ok(bmi2_index_of(coords.val))
    /\ UNCHANGED <<build, api, ty, dim, given, coords, index, decoded, reindex,
                   hw_decoded, dual, margs, mres, outty>>
    /\ UNCHANGED <<stage, dety, hwty, cpu_bmi2, prog, pc, detected, token, pos,
                   hw_calls>>
    /\ UNCHANGED <<last_shift, coords2, index2, wide, outs>>

\* bmi2::index_of_64 on the given pair.
Bmi2IndexOf64 ==
    /\ api = "fixed" /\ ty = 32
    /\ cpu_bmi2
    /\ given = "coords" /\ hw_index.tag = "none"
    /\ hw_index' = Ok(bmi2_index_of_64(coords.val))
    /\ UNCHANGED <<build, api, ty, dim, given, coords, index, decoded, reindex,
                   hw_decoded, dual, margs, mres, outty>>
    /\ UNCHANGED <<stage, dety, hwty, cpu_bmi2, prog, pc, detected, token, pos,
                   hw_calls>>
    /\ UNCHANGED <<last_shift, coords2, index2, wide, outs>>

\* bmi2::coord_of on the given index.
Bmi2CoordOf ==
    /\ api = "fixed" /\ ty = 16
    /\ cpu_bmi2
    /\ given = "index" /\ hw_decoded.tag = "none"
    /\ hw_decoded' = Ok(bmi2_coord_of(index.val))
    /\ UNCHANGED <<build, api, ty, dim, given, coords, index, decoded, reindex,
                   hw_index, dual, margs, mres, outty>>
    /\ UNCHANGED <<stage, dety, hwty, cpu_bmi2, prog, pc, detected, token, pos,
                   hw_calls>>
    /\ UNCHANGED <<last_shift, coords2, index2, wide, outs>>

\* bmi2::coord_of_64 on the given index.
Bmi2CoordOf64 ==
    /\ api = "fixed" /\ ty = 32
    /\ cpu_bmi2
    /\ given = "index" /\ hw_decoded.tag = "none"
    /\ hw_decoded' = Ok(bmi2_coord_of_64(index.val))
    /\ UNCHANGED <<build, api, ty, dim, given, coords, index, decoded, reindex,
                   hw_index, dual, margs, mres, outty>>
    /\ UNCHANGED <<stage, dety, hwty, cpu_bmi2, prog, pc, detected, token, pos,
                   hw_calls>>
    /\ UNCHANGED <<last_shift, coords2, index2, wide, outs>>

\* A call of interleave_mask::<T>(dim, bits).
InterleaveMask ==
    /\ api = "mask" /\ mres.tag = "none"
    /\ mres' = Ok(interleave_mask(margs[1], margs[2], margs[3]))
    /\ UNCHANGED <<build, api, ty, dim, given, coords, index, decoded, reindex,
                   hw_index, hw_decoded, dual, margs, outty>>
    /\ UNCHANGED <<stage, dety, hwty, cpu_bmi2, prog, pc, detected, token, pos,
                   hw_calls>>
    /\ UNCHANGED <<last_shift, coords2, index2, wide, outs>>

\* Resolution of <T as InterleaveOutput<N>>::Output: the width of the output
\* type, or a rejection when no impl exists.  T is the coordinate type the
\* caller named, or the one DeinterleaveOutput resolved to.
ResolveOutput ==
    /\ outty.tag = "none"
    /\ \E T \in Widths :
         /\ \/ api = "types" /\ T = ty
            \/ api = "decode types" /\ dety.tag = "ok" /\ T = dety.val
         /\ outty' = IF HasInterleaveOutput(T, dim)
                     THEN Ok(InterleaveOutput(T, dim))
                     ELSE [tag |-> "rejected", val |-> 0]
    /\ UNCHANGED <<build, api, ty, dim, given, coords, index, decoded, reindex,
                   hw_index, hw_decoded, dual, margs, mres>>
    /\ UNCHANGED <<stage, dety, hwty, cpu_bmi2, prog, pc, detected, token, pos,
                   hw_calls>>
    /\ UNCHANGED <<last_shift, coords2, index2, wide, outs>>

\* Resolution of <O as DeinterleaveOutput<N>>::Output: the width of the
\* coordinate type, or a rejection.  O is the index type the caller named,
\* or the one InterleaveOutput resolved to.
ResolveDeinterleaveOutput ==
    /\ dety.tag = "none"
    /\ \E O \in Widths :
         /\ \/ api = "decode types" /\ O = ty
            \/ api = "types" /\ outty.tag = "ok" /\ O = outty.val
         /\ dety' = IF HasDeinterleaveOutput(O, dim)
                    THEN Ok(DeinterleaveOutput(O, dim))
                    ELSE [tag |-> "rejected", val |-> 0]
    /\ UNCHANGED <<build, api, ty, dim, given, coords, index, decoded, reindex,
                   hw_index, hw_decoded, dual, margs, mres, outty, stage, hwty,
                   cpu_bmi2, prog, pc, detected, token, pos, hw_calls>>
    /\ UNCHANGED <<last_shift, coords2, index2, wide, outs>>

\* Resolution of <T as DeinterleaveBMI2<N>>::deinterleave_bmi2: the width of
\* its return type <T as Deinterleave<N>>::Output, or a rejection when T
\* has no DeinterleaveBMI2<N> impl.
ResolveDeinterleaveBMI2 ==
    /\ api = "decode types" /\ hwty.tag = "none"
    /\ hwty' = IF HasDeinterleaveBMI2(ty, dim)
               THEN Ok(DeinterleaveOutput(ty, dim))
               ELSE [tag |-> "rejected", val |-> 0]
    /\ UNCHANGED <<build, api, ty, dim, given, coords, index, decoded, reindex,
                   hw_index, hw_decoded, dual, margs, mres, outty, stage, dety,
                   cpu_bmi2, prog, pc, detected, token, pos, hw_calls>>
    /\ UNCHANGED <<last_shift, coords2, index2, wide, outs>>

\* interleave, entry:
\* `let mut x: Self::Output = unsafe { num_cast(self) };`, with all
\* BITS_ILOG2 stages still to run.
InterleaveEnter ==
    /\ api = "stages" /\ index.tag = "none"
    /\ index' = Ok(coords.val[1])
    /\ stage' = BITS_ILOG2(ty)
    /\ UNCHANGED <<build, api, ty, dim, given, coords, decoded, reindex,
                   hw_index, hw_decoded, dual, margs, mres, outty, dety, hwty,
                   cpu_bmi2, prog, pc, detected, token, pos, hw_calls>>
    /\ UNCHANGED <<last_shift, coords2, index2, wide, outs>>

\* interleave, one iteration of `for i in (0..BITS_ILOG2).rev()`: the stage
\* i = stage - 1.
InterleaveStage ==
    /\ api = "stages" /\ index.tag = "ok" /\ stage > 0
    /\ index' = IF build = "debug"
                   /\ interleave_stage_overflows(stage - 1, margs[1], dim)
                THEN Panic
                ELSE Ok(interleave_stage(index.val, stage - 1, margs[1], dim))
    /\ stage' = stage - 1
    /\ UNCHANGED <<build, api, ty, dim, given, coords, decoded, reindex,
                   hw_index, hw_decoded, dual, margs, mres, outty, dety, hwty,
                   cpu_bmi2, prog, pc, detected, token, pos, hw_calls>>
    /\ UNCHANGED <<last_shift, coords2, index2, wide, outs>>

\* A call of mask::<T>(bits).  With overflow checks an overflowing
\* subtraction or shift panics; without them both wrap.
Mask ==
    /\ api = "low mask" /\ mres.tag = "none"
    /\ mres' = IF build = "debug" /\ mask_overflows(margs[1], margs[2])
               THEN Panic
               ELSE Ok(mask(margs[1], margs[2]))
    /\ UNCHANGED <<build, api, ty, dim, given, coords, index, decoded, reindex,
                   hw_index, hw_decoded, dual, margs, outty, stage, dety, hwty,
                   cpu_bmi2, prog, pc, detected, token, pos, hw_calls>>
    /\ UNCHANGED <<last_shift, coords2, index2, wide, outs>>

\* A call of interleave_mask::<u128>(dim, bits) with the dim and bits of
\* margs.
InterleaveMaskWide ==
    /\ api = "mask" /\ wide.tag = "none"
    /\ wide' = Ok(interleave_mask(128, margs[2], margs[3]))
    /\ UNCHANGED <<build, api, ty, dim, given, coords, index, decoded, reindex,
                   hw_index, hw_decoded, dual, margs, mres, outty, stage,
                   dety, hwty, cpu_bmi2, prog, pc, detected, token, pos,
                   hw_calls, last_shift, coords2, index2, outs>>

Next ==
    \/ GenericIndexOf
    \/ ArrayIndexOf
    \/ ArrayCoordOf
    \/ ArrayCoordOfBMI2
    \/ IndexOf
    \/ IndexOf64
    \/ IndexOf64DualPass
    \/ CoordOf
    \/ CoordOf64
    \/ Bmi2IndexOf
    \/ Bmi2IndexOf64
    \/ Bmi2CoordOf
    \/ Bmi2CoordOf64
    \/ InterleaveMask
    \/ ResolveOutput
    \/ ResolveDeinterleaveOutput
    \/ ResolveDeinterleaveBMI2
    \/ InterleaveEnter
    \/ InterleaveStage
    \/ Mask
    \/ InterleaveMaskWide

Spec == Init /\ [][Next]_vars

-----------------------------------------------------------------------------
(* The callers of the accelerated path: the example program convert.rs and *)
(* the benchmark bmi2_zorder.rs.  Each thread runs one of them.            *)

\* Number of threads running a caller.
NumThreads == 2

Threads == 1..NumThreads

\* The callers of the accelerated path: examples/convert.rs,
\* benches/bmi2_zorder.rs, benches/zorder_bench.rs and
\* benches/indexing_comparison.rs.
Programs == {"convert", "bench", "zorder_bench", "indexing_comparison"}

\* convert.rs: the list has five [u8; 3] entries.
ListLen == 5
ConvertTy == 8
ConvertDim == 3

\* bmi2_zorder.rs: ten bench_function calls.
BenchFunctions == 10

\* zorder_bench.rs: two bench_function calls in each guarded block.
BlockFunctions == 2

\* indexing_comparison.rs: nine positions, and the 3 x 3 neighbours that
\* sum_neighbors visits.
PosLen == 9
Neighbours == 9

\* The feature detection inside HardwareSupportToken::new: a read of the
\* CPU's feature bits.
feature_detected(cpu) == IF cpu THEN "yes" ELSE "no"

\* A detection that reports support whatever the CPU says.
HardwareSupportToken_always(d) == "some"

\* HardwareSupportToken::new() -> Option<Self>: Some exactly when the
\* detection reported support.
HardwareSupportToken_new(d) == IF d = "yes" THEN "some" ELSE "none"

\* A caller that goes on with whatever `new` returned.
IsProbed(tok) == tok # "unprobed"

\* `if let Some(support_token) = ...`: the pattern matches.
IsSome(tok) == tok = "some"

GateInit ==
    /\ build \in Builds
    /\ cpu_bmi2 \in BOOLEAN
    /\ api = "gate" /\ given = "program"
    /\ ty = 0 /\ dim = 0 /\ margs = <<>> /\ stage = 0
    /\ coords = None /\ index = None
    /\ Blank
    /\ coords2 = None /\ outs = <<>>
    /\ prog \in [Threads -> Programs]
    /\ pc = [t \in Threads |-> IF prog[t] = "bench" THEN "probe"
                                                   ELSE "software"]
    /\ detected = [t \in Threads |-> "unknown"]
    /\ token = [t \in Threads |-> "unprobed"]
    /\ pos = [t \in Threads |-> 0]
    /\ hw_calls = [t \in Threads |-> 0]

\* convert.rs, one iteration of the software loop: index_of(coord), then
\* coord_of(idx); with overflow checks a shift that overflows panics.
ConvertSoftware(t) ==
    /\ prog[t] = "convert" /\ pc[t] = "software"
    /\ IF build = "debug"
          /\ (\/ interleave_overflows(ConvertTy, ConvertDim)
              \/ deinterleave_overflows(InterleaveOutput(ConvertTy, ConvertDim),
                                        ConvertDim))
       THEN /\ pc' = [pc EXCEPT ![t] = "panicked"]
            /\ UNCHANGED pos
       ELSE IF pos[t] + 1 = ListLen
            THEN /\ pc' = [pc EXCEPT ![t] = "probe"]
                 /\ pos' = [pos EXCEPT ![t] = 0]
            ELSE /\ pos' = [pos EXCEPT ![t] = pos[t] + 1]
                 /\ UNCHANGED pc
    /\ UNCHANGED <<build, api, ty, dim, given, coords, index, decoded, reindex,
                   hw_index, hw_decoded, dual, margs, mres, outty, stage,
                   dety, hwty, cpu_bmi2, prog, detected, token, hw_calls>>
    /\ UNCHANGED <<last_shift, coords2, index2, wide, outs>>

\* HardwareSupportToken::new, first half: the thread reads the CPU's
\* feature bits.
Detect(t) ==
    /\ pc[t] = "probe"
    /\ detected' = [detected EXCEPT ![t] = feature_detected(cpu_bmi2)]
    /\ pc' = [pc EXCEPT ![t] = "wrap"]
    /\ UNCHANGED <<build, api, ty, dim, given, coords, index, decoded, reindex,
                   hw_index, hw_decoded, dual, margs, mres, outty, stage,
                   dety, hwty, cpu_bmi2, prog, token, pos, hw_calls>>
    /\ UNCHANGED <<last_shift, coords2, index2, wide, outs>>

\* HardwareSupportToken::new, second half: the thread keeps the answer as
\* its own Option<HardwareSupportToken>.
AcquireToken(t) ==
    /\ pc[t] = "wrap"
    /\ token' = [token EXCEPT ![t] = HardwareSupportToken_new(detected[t])]
    /\ pc' = [pc EXCEPT ![t] = "gate"]
    /\ UNCHANGED <<build, api, ty, dim, given, coords, index, decoded, reindex,
                   hw_index, hw_decoded, dual, margs, mres, outty, stage,
                   dety, hwty, cpu_bmi2, prog, detected, pos, hw_calls>>
    /\ UNCHANGED <<last_shift, coords2, index2, wide, outs>>

\* convert.rs: `if let Some(support_token) = ...`, no else branch.
ConvertGate(t) ==
    /\ prog[t] = "convert" /\ pc[t] = "gate"
    /\ pc' = [pc EXCEPT ![t] = IF IsSome(token[t]) THEN "accelerated"
                                                   ELSE "done"]
    /\ UNCHANGED <<build, api, ty, dim, given, coords, index, decoded, reindex,
                   hw_index, hw_decoded, dual, margs, mres, outty, stage,
                   dety, hwty, cpu_bmi2, prog, detected, token, pos, hw_calls>>
    /\ UNCHANGED <<last_shift, coords2, index2, wide, outs>>

\* bmi2_zorder.rs: `if let Some(support_token) = ... else { panic!(..) }`.
BenchGate(t) ==
    /\ prog[t] = "bench" /\ pc[t] = "gate"
    /\ pc' = [pc EXCEPT ![t] = IF IsSome(token[t]) THEN "accelerated"
                                                   ELSE "panicked"]
    /\ UNCHANGED <<build, api, ty, dim, given, coords, index, decoded, reindex,
                   hw_index, hw_decoded, dual, margs, mres, outty, stage,
                   dety, hwty, cpu_bmi2, prog, detected, token, pos, hw_calls>>
    /\ UNCHANGED <<last_shift, coords2, index2, wide, outs>>

\* convert.rs, one iteration of the BMI2 loop: bmi2::index_of(coord, token),
\* then bmi2::coord_of(idx, token).
ConvertAccelerated(t) ==
    /\ prog[t] = "convert" /\ pc[t] = "accelerated"
    /\ hw_calls' = [hw_calls EXCEPT ![t] = hw_calls[t] + 1]
    /\ pos' = [pos EXCEPT ![t] = pos[t] + 1]
    /\ pc' = [pc EXCEPT ![t] = IF pos[t] + 1 = ListLen THEN "done"
                                                       ELSE "accelerated"]
    /\ UNCHANGED <<build, api, ty, dim, given, coords, index, decoded, reindex,
                   hw_index, hw_decoded, dual, margs, mres, outty, stage,
                   dety, hwty, cpu_bmi2, prog, detected, token>>
    /\ UNCHANGED <<last_shift, coords2, index2, wide, outs>>

\* bmi2_zorder.rs, one bench_function call: an accelerated encode or decode
\* with the token.
BenchAccelerated(t) ==
    /\ prog[t] = "bench" /\ pc[t] = "accelerated"
    /\ hw_calls' = [hw_calls EXCEPT ![t] = hw_calls[t] + 1]
    /\ pos' = [pos EXCEPT ![t] = pos[t] + 1]
    /\ pc' = [pc EXCEPT ![t] = IF pos[t] + 1 = BenchFunctions
                               THEN "done" ELSE "accelerated"]
    /\ UNCHANGED <<build, api, ty, dim, given, coords, index, decoded, reindex,
                   hw_index, hw_decoded, dual, margs, mres, outty, stage,
                   dety, hwty, cpu_bmi2, prog, detected, token>>
    /\ UNCHANGED <<last_shift, coords2, index2, wide, outs>>

\* zorder_bench.rs, the software benches before the first guarded block;
\* among them array_coord_of::<_, 2> on a u128; with overflow checks a shift
\* that overflows panics.
ZorderBenchSoftware(t) ==
    /\ prog[t] = "zorder_bench" /\ pc[t] = "software"
    /\ pc' = [pc EXCEPT ![t] = IF build = "debug" /\ deinterleave_overflows(128, 2)
                               THEN "panicked" ELSE "detect"]
    /\ UNCHANGED <<build, api, ty, dim, given, coords, index, decoded,
                   reindex, hw_index, hw_decoded, dual, margs, mres, outty,
                   stage, dety, hwty, cpu_bmi2, prog, detected, token, pos,
                   hw_calls, last_shift, coords2, index2, wide, outs>>

\* zorder_bench.rs: `if is_x86_feature_detected!("bmi2")` in front of the
\* 32-bit block and again in front of the 64-bit block.  No token is made.
ZorderBenchDetect(t) ==
    /\ prog[t] = "zorder_bench" /\ pc[t] \in {"detect", "detect_64"}
    /\ detected' = [detected EXCEPT ![t] = feature_detected(cpu_bmi2)]
    /\ pc' = [pc EXCEPT ![t] =
                IF feature_detected(cpu_bmi2) = "yes"
                THEN (IF pc[t] = "detect" THEN "unsafe" ELSE "unsafe_64")
                ELSE (IF pc[t] = "detect" THEN "detect_64" ELSE "done")]
    /\ UNCHANGED <<build, api, ty, dim, given, coords, index, decoded,
                   reindex, hw_index, hw_decoded, dual, margs, mres, outty,
                   stage, dety, hwty, cpu_bmi2, prog, token, pos, hw_calls,
                   last_shift, coords2, index2, wide, outs>>

\* zorder_bench.rs, one bench_function call of a guarded block:
\* `unsafe { bmi2::index_of(..) }`, coord_of, index_of_64 or coord_of_64.
ZorderBenchUnsafe(t) ==
    /\ prog[t] = "zorder_bench" /\ pc[t] \in {"unsafe", "unsafe_64"}
    /\ hw_calls' = [hw_calls EXCEPT ![t] = hw_calls[t] + 1]
    /\ IF pos[t] + 1 = BlockFunctions
       THEN /\ pos' = [pos EXCEPT ![t] = 0]
            /\ pc' = [pc EXCEPT ![t] = IF pc[t] = "unsafe" THEN "detect_64"
                                                           ELSE "done"]
       ELSE /\ pos' = [pos EXCEPT ![t] = pos[t] + 1]
            /\ UNCHANGED pc
    /\ UNCHANGED <<build, api, ty, dim, given, coords, index, decoded,
                   reindex, hw_index, hw_decoded, dual, margs, mres, outty,
                   stage, dety, hwty, cpu_bmi2, prog, detected, token,
                   last_shift, coords2, index2, wide, outs>>

\* indexing_comparison.rs: the "linear indexing" and "zorder indexing"
\* benches, which use the software index_of.
IndexingSoftware(t) ==
    /\ prog[t] = "indexing_comparison" /\ pc[t] = "software"
    /\ pc' = [pc EXCEPT ![t] = "detect"]
    /\ UNCHANGED <<build, api, ty, dim, given, coords, index, decoded,
                   reindex, hw_index, hw_decoded, dual, margs, mres, outty,
                   stage, dety, hwty, cpu_bmi2, prog, detected, token, pos,
                   hw_calls, last_shift, coords2, index2, wide, outs>>

\* indexing_comparison.rs: `if is_x86_feature_detected!("bmi2")`.
IndexingDetect(t) ==
    /\ prog[t] = "indexing_comparison" /\ pc[t] = "detect"
    /\ detected' = [detected EXCEPT ![t] = feature_detected(cpu_bmi2)]
    /\ pc' = [pc EXCEPT ![t] = IF feature_detected(cpu_bmi2) = "yes"
                               THEN "unsafe" ELSE "done"]
    /\ UNCHANGED <<build, api, ty, dim, given, coords, index, decoded,
                   reindex, hw_index, hw_decoded, dual, margs, mres, outty,
                   stage, dety, hwty, cpu_bmi2, prog, token, pos, hw_calls,
                   last_shift, coords2, index2, wide, outs>>

\* indexing_comparison.rs, vec_with_index_type(.., ZOrderBmi2): one
\* `unsafe { bmi2::index_of(xy) }` per position, inside the safe `set`.
IndexingSet(t) ==
    /\ prog[t] = "indexing_comparison" /\ pc[t] = "unsafe"
    /\ hw_calls' = [hw_calls EXCEPT ![t] = hw_calls[t] + PosLen]
    /\ pc' = [pc EXCEPT ![t] = "unsafe bench"]
    /\ UNCHANGED <<build, api, ty, dim, given, coords, index, decoded,
                   reindex, hw_index, hw_decoded, dual, margs, mres, outty,
                   stage, dety, hwty, cpu_bmi2, prog, detected, token, pos,
                   last_shift, coords2, index2, wide, outs>>

\* indexing_comparison.rs, one iteration of "bmi2 indexing": sum_neighbors
\* on each position, one bmi2::index_of per neighbour.
IndexingBench(t) ==
    /\ prog[t] = "indexing_comparison" /\ pc[t] = "unsafe bench"
    /\ hw_calls' = [hw_calls EXCEPT ![t] = hw_calls[t] + PosLen * Neighbours]
    /\ pc' = [pc EXCEPT ![t] = "done"]
    /\ UNCHANGED <<build, api, ty, dim, given, coords, index, decoded,
                   reindex, hw_index, hw_decoded, dual, margs, mres, outty,
                   stage, dety, hwty, cpu_bmi2, prog, detected, token, pos,
                   last_shift, coords2, index2, wide, outs>>

GateNext ==
    \E t \in Threads :
        \/ ConvertSoftware(t)
        \/ Detect(t)
        \/ AcquireToken(t)
        \/ ConvertGate(t)
        \/ BenchGate(t)
        \/ ConvertAccelerated(t)
        \/ BenchAccelerated(t)
        \/ ZorderBenchSoftware(t)
        \/ ZorderBenchDetect(t)
        \/ ZorderBenchUnsafe(t)
        \/ IndexingSoftware(t)
        \/ IndexingDetect(t)
        \/ IndexingSet(t)
        \/ IndexingBench(t)

GateSpec == GateInit /\ [][GateNext]_vars

-----------------------------------------------------------------------------
(* Properties.                                                             *)

CeilDiv(a, b) == (a + b - 1) \div b

\* C1 (round trip): once the given coordinates have been encoded by
\* array_index_of and the index decoded by the software deinterleave, the
\* decode has returned a value and that value is the given coordinate array.
C1_RoundTrip ==
    (api = "array" /\ given = "coords" /\ decoded.tag # "none")
        => (decoded.tag = "ok" /\ decoded.val = coords.val)

\* C1 witness: with overflow checks, 8-bit coordinates in 13 dimensions
\* with only the top bit of the last axis set have been encoded into bit
\* 103 and decoded back to the same array.
C1_Witness ==
    /\ api = "array" /\ given = "coords" /\ build = "debug"
    /\ ty = 8 /\ dim = 13
    /\ coords.val[13] = {7}
    /\ index = Ok({103})
    /\ decoded = Ok(coords.val)

\* C2 (inverse consistency): for a given index whose bits at positions
\* N*w and above are zero, the software decode returns a value, and
\* encoding that value again yields the given index.
C2_InverseConsistency ==
    (api = "array" /\ given = "index" /\ index.val \subseteq 0..(dim * ty - 1))
        => /\ decoded.tag # "panic"
           /\ reindex.tag # "none" => reindex = Ok(index.val)

\* C2 witness: the u64 index with the bits 0..47 set (16-bit coordinates
\* in 3 dimensions, the bits 48..63 unused) has been decoded to three
\* times 0xFFFF and encoded again to itself.
C2_Witness ==
    /\ api = "array" /\ given = "index"
    /\ ty = 16 /\ dim = 3
    /\ index = Ok(0..47)
    /\ decoded = Ok([a \in 1..3 |-> 0..15])
    /\ reindex = Ok(0..47)

\* C3 (bit placement of encode): for the generic encode and for
\* array_index_of of lib.rs, bit (i + j*N) of the encoded index equals
\* bit j of axis i of the given coordinates, for every axis i in 0..N-1 and
\* every j in 0..w-1, and no bit at a position >= N*w is set.
C3_BitPlacement ==
    (api \in {"array", "array_index_of"} /\ given = "coords" /\ index.tag = "ok")
        => /\ \A a \in 1..dim : \A j \in 0..(ty - 1) :
                ((a - 1) + j * dim \in index.val) <=> (j \in coords.val[a])
           /\ \A p \in index.val : p < dim * ty

\* C3 witness: 8-bit coordinates in 13 dimensions, only the top bit of the
\* last axis set, encoded into bit 12 + 7*13 = 103 of the 128-bit index.
C3_Witness ==
    /\ api = "array" /\ given = "coords" /\ index.tag = "ok"
    /\ ty = 8 /\ dim = 13
    /\ coords.val[13] = {7}
    /\ index.val = {103}

\* C4 (cross-path equality of decode): whenever both the BMI2 decode and the
\* software decode of the same index have run, the software decode has
\* returned a value and the two coordinate arrays are equal, axis by axis.
C4_DecodeCrossPath ==
    (api = "array" /\ hw_decoded.tag = "ok" /\ decoded.tag # "none")
        => (decoded.tag = "ok" /\ decoded.val = hw_decoded.val)

\* C4 witness: the u32 index with every bit but bit 0 set, the unused bits
\* 24..31 among them, decoded with N = 3 on both paths to [0xFE, 0xFF, 0xFF].
C4_Witness ==
    /\ api = "array" /\ given = "index"
    /\ ty = 8 /\ dim = 3
    /\ index = Ok(1..31)
    /\ decoded = Ok(<<1..7, 0..7, 0..7>>)
    /\ hw_decoded = decoded

\* C5 (cross-path equality of the 2D functions): the BMI2 encode of the
\* given pair equals the software encode of it, and the BMI2 decode of the
\* given index equals the software decode of it.
C5_FixedCrossPath ==
    /\ (api = "fixed" /\ given = "coords" /\ index.tag = "ok" /\ hw_index.tag = "ok")
          => hw_index.val = index.val
    /\ (api = "fixed" /\ given = "index" /\ decoded.tag = "ok" /\ hw_decoded.tag = "ok")
          => hw_decoded.val = decoded.val

\* C5 witness: both decodes of the 64-bit index with every bit but bit 63
\* set have run (x is all ones, y lacks its top bit).
C5_Witness ==
    /\ api = "fixed" /\ ty = 32 /\ given = "index"
    /\ index.val = 0..62
    /\ decoded.tag = "ok" /\ hw_decoded.tag = "ok"
    /\ hw_decoded.val = <<0..31, 0..30>>

\* C6: index_of(coord_of(i)) = i for every given 32-bit index i.
C6_IndexOfCoordOf ==
    (api = "fixed" /\ ty = 16 /\ given = "index" /\ reindex.tag = "ok")
        => reindex.val = index.val

\* C6 witness: the round trip has run on the index 0xFFFF7FFF.
C6_Witness ==
    /\ api = "fixed" /\ ty = 16 /\ given = "index"
    /\ index.val = (0..31) \ {15}
    /\ decoded.tag = "ok" /\ reindex.tag = "ok"

\* C7: index_of_64(coord_of_64(i)) = i for every given 64-bit index i.
C7_IndexOfCoordOf64 ==
    (api = "fixed" /\ ty = 32 /\ given = "index" /\ reindex.tag = "ok")
        => reindex.val = index.val

\* C7 witness: the round trip has run on the index u64::MAX - 1.
C7_Witness ==
    /\ api = "fixed" /\ ty = 32 /\ given = "index"
    /\ index.val = 1..63
    /\ decoded.tag = "ok" /\ reindex.tag = "ok"

\* C8: index_of_64_dual_pass returns the index that index_of_64 returns for
\* the same pair of 32-bit coordinates.
C8_DualPass ==
    (api = "fixed" /\ ty = 32 /\ given = "coords" /\ index.tag = "ok" /\ dual.tag = "ok")
        => dual.val = index.val

\* C9 (output-width resolution): InterleaveOutput is defined for (w, N)
\* exactly when some supported width is >= N*w, and the width it yields is
\* the smallest such width.
C9_OutputWidth ==
    (api = "types" /\ outty.tag # "none")
        => LET fits == {W \in Widths : W >= dim * ty}
           IN  /\ (outty.tag = "ok") <=> (fits # {})
               /\ outty.tag = "ok" =>
                    (outty.val \in fits /\ \A W \in fits : outty.val <= W)

\* C9 witness: 16-bit coordinates in 5 dimensions (80 bits) resolved to 128.
C9_Witness ==
    /\ api = "types" /\ ty = 16 /\ dim = 5
    /\ outty = Ok(128)

\* C10 (mask shape): for dim >= 2, interleave_mask(dim, bits) of width W has
\* bit p set exactly when p mod (dim*bits) < bits; it has exactly
\* ceil(W / (dim*bits)) runs, each of `bits` ones, the first at bit 0.
C10_MaskShape ==
    (api = "mask" /\ mres.tag = "ok" /\ margs[2] >= 2)
        => LET W == margs[1]
               period == margs[2] * margs[3]
               bits == margs[3]
               starts == {p \in mres.val : p % period = 0}
           IN  /\ mres.val = {p \in 0..(W - 1) : p % period < bits}
               /\ Cardinality(starts) = CeilDiv(W, period)
               /\ 0 \in starts
               /\ \A s \in starts : \A k \in 0..(bits - 1) : s + k \in mres.val
               /\ Cardinality(mres.val) = bits * CeilDiv(W, period)

\* C10 witness: interleave_mask::<u128>(3, 8), whose sixth run is bits
\* 120..127.
C10_Witness ==
    /\ api = "mask" /\ margs = <<128, 3, 8>>
    /\ mres.tag = "ok"
    /\ 127 \in mres.val

-----------------------------------------------------------------------------
(* The software paths in detail: deinterleave followed stage by stage.     *)

\* The u32 that holds the integer k (two's complement, so a wrapped
\* negative k), for |k| < 2^31.
U32(k) ==
    {p \in 0..30 : (k \div Pow2(p)) % 2 = 1} \cup (IF k < 0 THEN {31} ELSE {})

\* The caller holds an index of width W = margs[1] and follows the
\* deinterleave of the axis lsb = margs[2], the first or the last axis.
InitDecodeStages ==
    /\ given = "index" /\ api = "decode stages"
    /\ \E td \in TypeDims :
         /\ ty = td[1] /\ dim = td[2]
         /\ \E lsb \in {0, td[2] - 1} :
              margs = <<InterleaveOutput(td[1], td[2]), lsb>>
         /\ \E v \in Words(InterleaveOutput(td[1], td[2])) : index = Ok(v)
    /\ coords = None
    /\ coords2 = None /\ outs = <<>>

\* The caller holds one coordinate and hands it to every interleave
\* implementation that exists for its type and dimension; outs holds one
\* result per implementation.
InitImplementations ==
    /\ given = "coords" /\ api = "implementations"
    /\ \E e \in MaskOutputTable :
         /\ ty = e[1] /\ dim = e[2]
         /\ \E v \in Words(e[1]) : coords = Ok(<<v>>)
         /\ outs = [a \in Implementations(e[2]) |-> None]
    /\ index = None /\ margs = <<>>
    /\ coords2 = None

\* Values above the w-bit value x: x + 1, the next power of two, and the
\* largest value.
Larger(x, w) ==
    LET full == 0..(w - 1)
        z == CHOOSE p \in full \ x : \A q \in full \ x : p <= q
        t == CHOOSE p \in x : \A q \in x : q <= p
    IN  IF x = full THEN {}
        ELSE {(x \ (0..z)) \cup {z}, full}
                \cup (IF x # {} /\ t + 1 < w THEN {{t + 1}} ELSE {})

\* The caller holds a coordinate array and will encode it and a second
\* array that is nowhere smaller, with array_index_of of lib.rs ("order")
\* or with the generic encode ("generic order").  The axis k = margs[1], the first or the
\* last one, holds any of the swept values; the other axes are all zero or
\* all ones.
InitOrder ==
    /\ given = "coords"
    /\ \E f \in {"order", "generic order"} :
       \E td \in (IF f = "order" THEN MaskTypeDims ELSE TypeDims) :
         /\ api = f
         /\ ty = td[1] /\ dim = td[2]
         /\ \E k \in {1, td[2]}, u \in Words(td[1]), o \in {{}, 0..(td[1] - 1)} :
              /\ margs = <<k>>
              /\ coords = Ok([a \in 1..td[2] |-> IF a = k THEN u ELSE o])
    /\ index = None
    /\ coords2 = None /\ outs = <<>>

DetailInit ==
    /\ build \in Builds
    /\ cpu_bmi2 = TRUE
    /\ NoThreads
    /\ Blank
    /\ stage = 0
    /\ (InitDecodeStages \/ InitImplementations)

\* deinterleave, entry:
\* `let mut x = (self >> lsb) & interleave_mask(N as u32, 1);`.
DeinterleaveEnter ==
    /\ api = "decode stages" /\ decoded.tag = "none"
    /\ decoded' = Ok(Shr(index.val, margs[2])
                        \cap interleave_mask(margs[1], dim, 1))
    /\ stage' = 0
    /\ UNCHANGED <<build, api, ty, dim, given, coords, index, reindex,
                   hw_index, hw_decoded, dual, margs, mres, outty, dety, hwty,
                   cpu_bmi2, prog, pc, detected, token, pos, hw_calls,
                   last_shift, coords2, index2, wide, outs>>

\* deinterleave, the iteration i = stage of `for i in 0..BITS_ILOG2`: the
\* mask into mres, the shift distance into last_shift, then
\* x = (x | x.unsigned_shr(shift_count)) & mask; after the last iteration
\* the function returns x.as_().  With overflow checks the computation of
\* the shift distance, or the shift itself, panics when it overflows.
DeinterleaveStage ==
    /\ api = "decode stages" /\ decoded.tag = "ok"
    /\ stage < BITS_ILOG2(ty)
    /\ LET W == margs[1]
           m == interleave_mask(W, dim, Pow2(stage + 1))
           sc == deinterleave_shift_count(stage, dim)
           x == deinterleave_stage(decoded.val, stage, W, dim)
       IN  /\ mres' = Ok(m)
           /\ last_shift' = IF build = "debug"
                               /\ interleave_shift_overflows(stage, dim)
                            THEN Panic
                            ELSE Ok(U32(sc))
           /\ decoded' = IF build = "debug"
                            /\ (interleave_shift_overflows(stage, dim)
                                  \/ ShiftOverflows(sc, W))
                         THEN Panic
                         ELSE IF stage + 1 = BITS_ILOG2(ty)
                              THEN Ok(Cast(x, ty))
                              ELSE Ok(x)
    /\ stage' = stage + 1
    /\ UNCHANGED <<build, api, ty, dim, given, coords, index, reindex,
                   hw_index, hw_decoded, dual, margs, outty, dety, hwty,
                   cpu_bmi2, prog, pc, detected, token, pos, hw_calls,
                   coords2, index2, wide, outs>>

\* The hard-coded Interleave::interleave of lib.rs (its literal shifts are
\* below the width).
LibInterleave ==
    /\ api = "implementations"
    /\ "lib" \in DOMAIN outs /\ outs["lib"].tag = "none"
    /\ outs' = [outs EXCEPT !["lib"] =
                 Ok(lib_interleave(coords.val[1], ty))]
    /\ UNCHANGED <<build, api, ty, dim, given, coords, index, decoded, reindex,
                   hw_index, hw_decoded, dual, margs, mres, outty, stage, dety,
                   hwty, cpu_bmi2, prog, pc, detected, token, pos, hw_calls,
                   last_shift, coords2, index2, wide>>

\* DimMask::<N>::interleave of lib.rs, with the constant mask table.
DimMaskInterleave ==
    /\ api = "implementations"
    /\ "dimmask" \in DOMAIN outs /\ outs["dimmask"].tag = "none"
    /\ outs' = [outs EXCEPT !["dimmask"] =
                 IF build = "debug" /\ shl_overflows(ty, dim)
                 THEN Panic
                 ELSE Ok(dimmask_interleave(coords.val[1], ty, dim))]
    /\ UNCHANGED <<build, api, ty, dim, given, coords, index, decoded, reindex,
                   hw_index, hw_decoded, dual, margs, mres, outty, stage, dety,
                   hwty, cpu_bmi2, prog, pc, detected, token, pos, hw_calls,
                   last_shift, coords2, index2, wide>>

\* The unrolled Interleave::<N>::interleave of mask.rs, with computed masks.
UnrolledInterleave ==
    /\ api = "implementations"
    /\ "unrolled" \in DOMAIN outs /\ outs["unrolled"].tag = "none"
    /\ outs' = [outs EXCEPT !["unrolled"] =
                 IF build = "debug" /\ interleave_overflows(ty, dim)
                 THEN Panic
                 ELSE Ok(unrolled_interleave(coords.val[1], ty, dim))]
    /\ UNCHANGED <<build, api, ty, dim, given, coords, index, decoded, reindex,
                   hw_index, hw_decoded, dual, margs, mres, outty, stage, dety,
                   hwty, cpu_bmi2, prog, pc, detected, token, pos, hw_calls,
                   last_shift, coords2, index2, wide>>

\* The loop-based Interleave::<N>::interleave of interleave.rs.
GenericInterleave ==
    /\ api = "implementations"
    /\ "generic" \in DOMAIN outs /\ outs["generic"].tag = "none"
    /\ outs' = [outs EXCEPT !["generic"] =
                 IF build = "debug" /\ interleave_overflows(ty, dim)
                 THEN Panic
                 ELSE Ok(interleave(coords.val[1], ty, dim))]
    /\ UNCHANGED <<build, api, ty, dim, given, coords, index, decoded, reindex,
                   hw_index, hw_decoded, dual, margs, mres, outty, stage, dety,
                   hwty, cpu_bmi2, prog, pc, detected, token, pos, hw_calls,
                   last_shift, coords2, index2, wide>>

\* array_index_of of lib.rs on the array the caller holds.
OrderFirst ==
    /\ api = "order" /\ index.tag = "none"
    /\ index' = IF build = "debug" /\ shl_overflows(ty, dim)
                THEN Panic
                ELSE Ok(array_index_of(coords.val, ty, dim))
    /\ UNCHANGED <<build, api, ty, dim, given, coords, decoded, reindex,
                   hw_index, hw_decoded, dual, margs, mres, outty, stage, dety,
                   hwty, cpu_bmi2, prog, pc, detected, token, pos, hw_calls,
                   last_shift, coords2, index2, wide, outs>>

\* array_index_of of lib.rs on a second array: the first one with a larger value on
\* the axis k, or with the lowest or the highest bit added to every axis.
OrderSecond ==
    /\ api = "order" /\ index.tag # "none" /\ coords2.tag = "none"
    /\ \E d \in {e \in {[coords.val EXCEPT ![margs[1]] = u] :
                             u \in Larger(coords.val[margs[1]], ty)}
                          \cup {[a \in 1..dim |-> coords.val[a] \cup u] :
                                   u \in {{0}, {ty - 1}}} :
                    /\ e # coords.val
                    /\ \A a \in 1..dim :
                          \/ coords.val[a] = e[a]
                          \/ WordLess(coords.val[a], e[a])} :
         coords2' = Ok(d)
    /\ index2' = IF build = "debug" /\ shl_overflows(ty, dim)
                 THEN Panic
                 ELSE Ok(array_index_of(coords2'.val, ty, dim))
    /\ UNCHANGED <<build, api, ty, dim, given, coords, index, decoded, reindex,
                   hw_index, hw_decoded, dual, margs, mres, outty, stage, dety,
                   hwty, cpu_bmi2, prog, pc, detected, token, pos, hw_calls,
                   last_shift, wide, outs>>

\* The generic encode on the array the caller holds.
GenericOrderFirst ==
    /\ api = "generic order" /\ index.tag = "none"
    /\ index' = IF build = "debug" /\ interleave_overflows(ty, dim)
                THEN Panic
                ELSE Ok(generic_index_of(coords.val, ty, dim))
    /\ UNCHANGED <<build, api, ty, dim, given, coords, decoded, reindex,
                   hw_index, hw_decoded, dual, margs, mres, outty, stage, dety,
                   hwty, cpu_bmi2, prog, pc, detected, token, pos, hw_calls,
                   last_shift, coords2, index2, wide, outs>>

\* The generic encode on a second array, chosen as in OrderSecond.
GenericOrderSecond ==
    /\ api = "generic order" /\ index.tag # "none" /\ coords2.tag = "none"
    /\ \E d \in {e \in {[coords.val EXCEPT ![margs[1]] = u] :
                             u \in Larger(coords.val[margs[1]], ty)}
                          \cup {[a \in 1..dim |-> coords.val[a] \cup u] :
                                   u \in {{0}, {ty - 1}}} :
                    /\ e # coords.val
                    /\ \A a \in 1..dim :
                          \/ coords.val[a] = e[a]
                          \/ WordLess(coords.val[a], e[a])} :
         coords2' = Ok(d)
    /\ index2' = IF build = "debug" /\ interleave_overflows(ty, dim)
                 THEN Panic
                 ELSE Ok(generic_index_of(coords2'.val, ty, dim))
    /\ UNCHANGED <<build, api, ty, dim, given, coords, index, decoded, reindex,
                   hw_index, hw_decoded, dual, margs, mres, outty, stage, dety,
                   hwty, cpu_bmi2, prog, pc, detected, token, pos, hw_calls,
                   last_shift, wide, outs>>

DetailNext ==
    \/ DeinterleaveEnter
    \/ DeinterleaveStage
    \/ LibInterleave
    \/ DimMaskInterleave
    \/ UnrolledInterleave
    \/ GenericInterleave

DetailSpec == DetailInit /\ [][DetailNext]_vars

OrderInit ==
    /\ build \in Builds
    /\ cpu_bmi2 = TRUE
    /\ NoThreads
    /\ Blank
    /\ stage = 0
    /\ InitOrder

OrderNext ==
    \/ OrderFirst
    \/ OrderSecond
    \/ GenericOrderFirst
    \/ GenericOrderSecond

OrderSpec == OrderInit /\ [][OrderNext]_vars

-----------------------------------------------------------------------------
(* Properties of the callers and of the detailed paths.                    *)

\* C11 as stated (capability gate): a thread that has called
\* HardwareSupportToken::new holds Some(token) exactly when the CPU supports
\* BMI2, and a thread has made an accelerated encode/decode call only if it
\* holds Some(token), so only on a CPU that supports BMI2.
C11_CapabilityGate ==
    \A t \in Threads :
        /\ token[t] # "unprobed" => (token[t] = "some" <=> cpu_bmi2)
        /\ hw_calls[t] > 0 => (token[t] = "some" /\ cpu_bmi2)

\* C11 amended: the token is Some exactly when the CPU supports BMI2, and a
\* thread has made an accelerated call only if it holds Some(token) or, on
\* the unsafe path without a token, its own feature detection has reported
\* support before; so no accelerated call occurs on a CPU without BMI2.
C11_CapabilityGateOrProbe ==
    \A t \in Threads :
        /\ token[t] # "unprobed" => (token[t] = "some" <=> cpu_bmi2)
        /\ hw_calls[t] > 0 =>
             /\ cpu_bmi2
             /\ \/ token[t] = "some"
                \/ /\ prog[t] \in {"zorder_bench", "indexing_comparison"}
                   /\ detected[t] = "yes"

\* C11 witness: a thread running convert.rs has acquired the token and has
\* gone through the whole BMI2 loop, and a thread running zorder_bench.rs
\* has made the calls of both guarded blocks without a token.
C11_Witness ==
    \E t \in Threads, u \in Threads :
        /\ prog[t] = "convert" /\ pc[t] = "done"
        /\ token[t] = "some" /\ hw_calls[t] = ListLen
        /\ prog[u] = "zorder_bench" /\ pc[u] = "done"
        /\ token[u] = "unprobed" /\ hw_calls[u] = 2 * BlockFunctions

\* C12 (probe under concurrency): the CPU's answer never changes, an
\* answer a thread has cached is never replaced, and in every interleaving
\* of the threads' probes all cached answers are the CPU's answer, hence
\* the same.
C12_ProbeAgreement ==
    /\ [](\A t \in Threads, u \in Threads :
            (token[t] # "unprobed" /\ token[u] # "unprobed")
                => (token[t] = token[u] /\ (token[t] = "some" <=> cpu_bmi2)))
    /\ [](\A t \in Threads :
            detected[t] # "unknown" => detected[t] = feature_detected(cpu_bmi2))
    /\ [][/\ cpu_bmi2' = cpu_bmi2
          /\ \A t \in Threads :
                token[t] # "unprobed" => token'[t] = token[t]]_vars

\* C12 witness: on a CPU without BMI2 every thread has probed on its own
\* and holds the same answer, None.
C12_Witness ==
    /\ \A t \in Threads : token[t] = "none" /\ pc[t] = "gate"
    /\ ~cpu_bmi2

\* C13 (totality): once array_index_of has run on the given coordinates it
\* has returned a value and every shift amount of interleave is >= 0 and
\* below the bit width; once the software decode has run it has returned a
\* value and, for every lsb in 0..N-1, every shift amount of deinterleave
\* is >= 0 and below the bit width.
C13_Totality ==
    api = "array" =>
        /\ index.tag # "none" =>
             /\ index.tag = "ok"
             /\ \A s \in interleave_shifts(ty, dim) : 0 <= s /\ s < IndexWidth
        /\ decoded.tag # "none" =>
             /\ decoded.tag = "ok"
             /\ \A lsb \in 0..(dim - 1) :
                   \A s \in deinterleave_shifts(IndexWidth, dim, lsb) :
                       0 <= s /\ s < IndexWidth

\* C13 witness: with overflow checks, 8-bit coordinates in 16 dimensions
\* have been encoded into a u128 and decoded, and both calls returned; the
\* last stage of that decode shifts by (16 - 1) * 4 = 60.
C13_Witness ==
    /\ api = "array" /\ build = "debug" /\ given = "coords"
    /\ ty = 8 /\ dim = 16
    /\ index.tag = "ok" /\ decoded.tag = "ok"
    /\ 60 \in deinterleave_shifts(128, 16, 15)

\* C14 (worked example): with 32-bit coordinates and N = 2, array_index_of
\* of [3, 7] is 47, and the software decode of 47 returns [3, 7], whether
\* 47 was given or was the result of that encode.
C14_WorkedExample ==
    /\ (api = "array" /\ ty = 32 /\ dim = 2 /\ given = "coords"
            /\ coords.val = ExampleCoords)
         => /\ index.tag # "none" => index = Ok(ExampleIndex)
            /\ decoded.tag # "none" => decoded = Ok(ExampleCoords)
    /\ (api = "array" /\ ty = 32 /\ dim = 2 /\ given = "index"
            /\ index.val = ExampleIndex)
         => (decoded.tag # "none" => decoded = Ok(ExampleCoords))

\* C14 witness: [3, 7] has been encoded to 47 and 47 decoded to [3, 7].
C14_Witness ==
    /\ api = "array" /\ ty = 32 /\ dim = 2 /\ given = "coords"
    /\ coords = Ok(ExampleCoords)
    /\ index = Ok(ExampleIndex)
    /\ decoded = Ok(ExampleCoords)

\* C15 (documented example): index_of((1, 1)) and index_of_64((1, 1)) are
\* 3, and coord_of(3) and coord_of_64(3) are (1, 1), whether 3 was given or
\* was the result of that encode.
C15_DocExample ==
    /\ (api = "fixed" /\ given = "coords" /\ coords.val = DocCoords)
         => /\ index.tag # "none" => index = Ok(DocIndex)
            /\ decoded.tag # "none" => decoded = Ok(DocCoords)
    /\ (api = "fixed" /\ given = "index" /\ index.val = DocIndex)
         => (decoded.tag # "none" => decoded = Ok(DocCoords))

\* C15 witness: the 16-bit pair (1, 1) has been encoded to 3 by index_of
\* and 3 decoded back to (1, 1) by coord_of.
C15_Witness ==
    /\ api = "fixed" /\ ty = 16 /\ given = "coords"
    /\ coords.val = DocCoords
    /\ index = Ok(DocIndex) /\ decoded = Ok(DocCoords)

\* C16 as stated: for every (index width, N) pair for which the software
\* DeinterleaveOutput resolves, deinterleave_bmi2 resolves too, to the same
\* coordinate width.
C16_SameTable ==
    (api = "decode types" /\ dety.tag = "ok" /\ hwty.tag # "none")
        => hwty = dety

\* C16 (amended): deinterleave_bmi2 resolves exactly for the pairs for
\* which DeinterleaveOutput resolves and whose index width is at most 64
\* bits, and then to the same coordinate width; for a 128-bit index there is
\* no accelerated implementation.
C16_SameTableUpTo64 ==
    (api = "decode types" /\ dety.tag # "none" /\ hwty.tag # "none")
        => /\ hwty.tag = "ok" <=> (dety.tag = "ok" /\ ty <= 64)
           /\ hwty.tag = "ok" => hwty = dety

\* C16 witness: a u64 index in 8 dimensions resolves on both paths to 8-bit
\* coordinates.
C16_Witness ==
    /\ api = "decode types" /\ ty = 64 /\ dim = 8
    /\ dety = Ok(8) /\ hwty = Ok(8)

\* C17 (dimension 1): once interleave_mask has been called with dim = 1
\* and bits = 2^i, it has returned the all-ones word, interleave_shift(i, 1)
\* is 0, the stage x = (x | (x << shift)) & mask leaves every value
\* unchanged, and so do all the stages of a coordinate type that fits the
\* word, run one after the other.
C17_DimOneIdentity ==
    (api = "mask" /\ margs[2] = 1 /\ mres.tag # "none")
        => /\ mres = Ok(0..(margs[1] - 1))
           /\ \A i \in 0..7 : Pow2(i) = margs[3] =>
                /\ interleave_shift(i, 1) = 0
                /\ \A v \in Words(margs[1]) :
                      /\ interleave_stage(v, i, margs[1], 1) = v
                      /\ (v \cup unsigned_shl(v, interleave_shift(i, 1), margs[1]))
                            \cap mres.val = v
           /\ \A w \in {8, 16, 32, 64} : w <= margs[1] =>
                \A v \in Words(w) :
                    interleave_stages(v, BITS_ILOG2(w), margs[1], 1) = v

\* C17 witness: interleave_mask::<u128>(1, 32) has returned all ones.
C17_Witness ==
    /\ api = "mask" /\ margs = <<128, 1, 32>>
    /\ mres = Ok(0..127)

\* C19 (stage invariant): interleave starts with BITS_ILOG2(w) stages to
\* run and runs them with the stage index going down to 0; when stage s is
\* the last one that has run, bit j of the input sits at position
\* (j div 2^s) * N * 2^s + (j mod 2^s) and every other bit is zero, so on
\* completion (s = 0) bit j sits at position j * N.
C19_StageInvariant ==
    (api = "stages" /\ index.tag # "none")
        => /\ stage \in 0..BITS_ILOG2(ty)
           /\ index.tag = "ok"
           /\ stage = BITS_ILOG2(ty) => index.val = coords.val[1]
           /\ stage < BITS_ILOG2(ty) =>
                index.val = {(j \div Pow2(stage)) * dim * Pow2(stage)
                                 + (j % Pow2(stage)) : j \in coords.val[1]}

\* C19 witness: 8-bit coordinate 0x80 in 3 dimensions after the stage with
\* index 1: bit 7 sits at position (7 div 2) * 3 * 2 + 1 = 19.
C19_Witness ==
    /\ api = "stages" /\ ty = 8 /\ dim = 3
    /\ coords.val[1] = {7}
    /\ stage = 1 /\ index = Ok({19})

\* C18 as stated: mask(bits) with bits = 0 or bits above the width ends in
\* a panic instead of returning a value, and for 0 < bits <= width it
\* returns the word with exactly the low `bits` bits set.
C18_MaskFailsFast ==
    (api = "low mask" /\ mres.tag # "none")
        => IF margs[2] = 0 \/ margs[2] > margs[1]
           THEN mres.tag = "panic"
           ELSE mres = Ok(0..(margs[2] - 1))

\* C18 (amended): for 0 < bits <= width mask(bits) returns the word with
\* exactly the low `bits` bits set, in both build profiles.  For bits = 0
\* or bits above the width it panics when overflow checks are on; when they
\* are off it returns the low (bits mod width) bits set, or all ones when
\* width divides bits.
C18_MaskFailsFastChecked ==
    (api = "low mask" /\ mres.tag # "none")
        => IF margs[2] = 0 \/ margs[2] > margs[1]
           THEN IF build = "debug"
                THEN mres.tag = "panic"
                ELSE mres = Ok(IF margs[2] % margs[1] = 0
                               THEN 0..(margs[1] - 1)
                               ELSE 0..((margs[2] % margs[1]) - 1))
           ELSE mres = Ok(0..(margs[2] - 1))

\* C18 witness: mask::<u8>(0) with overflow checks has panicked.
C18_Witness ==
    /\ api = "low mask" /\ build = "debug"
    /\ margs = <<8, 0>> /\ mres.tag = "panic"

\* C20 (deinterleave bit selection): once the software decode of an index
\* has run, it has returned a value, and bit j of axis lsb of that value is
\* bit (lsb + j*N) of the index, for every lsb in 0..N-1 and j in 0..w-1;
\* in particular the 128-bit index with the bits 0, 13, .., 91 set decodes
\* with N = 13 to 0xFF on axis 0.
C20_BitSelection ==
    (api = "array" /\ index.tag = "ok" /\ decoded.tag # "none")
        => /\ decoded.tag = "ok"
           /\ \A a \in 1..dim : \A j \in 0..(ty - 1) :
                (j \in decoded.val[a]) <=> ((a - 1) + j * dim \in index.val)
           /\ (ty = 8 /\ dim = 13 /\ index.val = TestIndexDim13)
                => decoded.val[1] = 0..7

\* C20 witness: the index of the test odd_large_dimension_interleave has
\* been decoded with N = 13 to 0xFF on axis 0 and to 0 on the other axes.
C20_Witness ==
    /\ api = "array" /\ given = "index"
    /\ ty = 8 /\ dim = 13
    /\ index = Ok(TestIndexDim13)
    /\ decoded = Ok([a \in 1..13 |-> IF a = 1 THEN 0..7 ELSE {}])

\* C21 (shift distance of deinterleave): the stages of deinterleave run
\* upwards from i = 0 to log2(w) - 1; the stage i that has just run computed
\* the shift distance (N - 1) * 2^i, which is interleave_shift(i, N), the
\* distance interleave uses at stage i, and the mask
\* interleave_mask(N, 2^(i+1)); and it replaced x by
\* (x | (x >> (N - 1) * 2^i)) & interleave_mask(N, 2^(i+1)), narrowed to the
\* coordinate type after the last stage.
C21_DeinterleaveShift ==
    /\ [](api = "decode stages" =>
            /\ stage \in 0..BITS_ILOG2(ty)
            /\ last_shift.tag = "none" <=> stage = 0
            /\ last_shift.tag # "none" =>
                 /\ last_shift = Ok(U32(interleave_shift(stage - 1, dim)))
                 /\ last_shift = Ok(U32((dim - 1) * Pow2(stage - 1)))
                 /\ mres = Ok(interleave_mask(margs[1], dim, Pow2(stage)))
                 /\ decoded.tag = "ok")
    /\ [][(api = "decode stages" /\ decoded.tag = "ok" /\ stage' # stage)
            => LET W == margs[1]
                   x == (decoded.val \cup Shr(decoded.val, (dim - 1) * Pow2(stage)))
                            \cap interleave_mask(W, dim, Pow2(stage + 1))
               IN  /\ stage' = stage + 1
                   /\ decoded' = Ok(IF stage' = BITS_ILOG2(ty)
                                    THEN Cast(x, ty) ELSE x)]_vars

\* C21 witness: the third stage of the decode of a u128 index with N = 13
\* has shifted by (13 - 1) * 4 = 48 and moved bit 52, the coordinate's
\* bit 4, to position 4.
C21_Witness ==
    /\ api = "decode stages" /\ dim = 13 /\ margs = <<128, 0>>
    /\ index = Ok({52})
    /\ stage = 3
    /\ last_shift = Ok(U32(48))
    /\ decoded = Ok({4})

\* C22 (the decode table inverts the encode table): when InterleaveOutput
\* maps (T, N) to O, DeinterleaveOutput maps (O, N) to T, and when
\* DeinterleaveOutput maps (O, N) to T, InterleaveOutput maps (T, N) to O,
\* for every type in {u8, .., u128} and every N from 2 up.
C22_TableInverse ==
    /\ (api = "types" /\ outty.tag = "ok" /\ dety.tag # "none")
         => dety = Ok(ty)
    /\ (api = "decode types" /\ dety.tag = "ok" /\ outty.tag # "none")
         => outty = Ok(ty)

\* C22 witness: u8 in 16 dimensions resolves to u128, and u128 in 16
\* dimensions resolves back to u8.
C22_Witness ==
    /\ api = "types" /\ ty = 8 /\ dim = 16
    /\ outty = Ok(128) /\ dety = Ok(8)

\* C23 (generated masks equal the table): for dim in {2, 3, 4} and every
\* stage k that has a constant, interleave_mask::<u128>(dim, 2^k) is
\* MASK_k_DIM_dim.
C23_MaskTable ==
    (api = "mask" /\ mres.tag = "ok" /\ margs[1] = 128)
        => \A k \in 0..5 :
              (HasMaskConstant(k, margs[2]) /\ margs[3] = Pow2(k))
                  => mres.val = MaskConstant(k, margs[2])

\* C23 witness: interleave_mask::<u128>(3, 1) has returned MASK_0_DIM_3.
C23_Witness ==
    /\ api = "mask" /\ margs = <<128, 3, 1>>
    /\ mres = Ok(MASK_0_DIM_3)

\* C24 (narrow masks are truncations): for every dim >= 2 and every power
\* of two bits <= 32, interleave_mask::<u32>(dim, bits) is the low 32 bits
\* of interleave_mask::<u128>(dim, bits); for dim = 2 it is the low 32 bits
\* of the constant MASK_k_DIM_2 with bits = 2^k (0xFFFF_FFFF, 0x0000_FFFF,
\* 0x00FF_00FF, 0x0F0F_0F0F, 0x3333_3333, 0x5555_5555).
C24_Truncation ==
    (api = "mask" /\ margs[1] = 32 /\ margs[2] >= 2 /\ mres.tag = "ok")
        => /\ wide.tag = "ok" => mres.val = Cast(wide.val, 32)
           /\ margs[2] = 2 =>
                \A k \in 0..5 : margs[3] = Pow2(k)
                    => mres.val = Cast(MaskConstant(k, 2), 32)

\* C24 witness: interleave_mask::<u32>(3, 2), whose last run (bits 30, 31)
\* ends at the top of the u32, and the u128 mask of the same arguments.
C24_Witness ==
    /\ api = "mask" /\ margs = <<32, 3, 2>>
    /\ mres.tag = "ok" /\ wide.tag = "ok"
    /\ 31 \in mres.val /\ 36 \in wide.val

\* C25 (implementations agree): for a coordinate type T and a dimension N
\* that have mask constants, every interleave implementation that has run
\* (the hard-coded one for N = 2, DimMask with the constant table, the
\* unrolled one with computed masks, the generic loop) has returned a
\* value, of the same output type, and all returned values are equal.
C25_ImplementationsAgree ==
    api = "implementations"
        => /\ MaskOutput(ty, dim) = InterleaveOutput(ty, dim)
           /\ \A a \in DOMAIN outs : outs[a].tag \in {"none", "ok"}
           /\ \A a, b \in DOMAIN outs :
                  (outs[a].tag # "none" /\ outs[b].tag # "none")
                      => outs[a] = outs[b]

C25_Witness ==
    /\ api = "implementations" /\ ty = 64 /\ dim = 2
    /\ coords = Ok(<<{63}>>)
    /\ \A a \in {"lib", "dimmask", "unrolled", "generic"} : outs[a] = Ok({126})

\* C26 (decode ignores the unused high bits): when the index type is wider
\* than N*w bits, the software decode of the given index returns a value,
\* that value is the decode of the index with the bits N*w and above
\* cleared, and encoding it again yields the given index modulo 2^(N*w).
C26_HighBitsIgnored ==
    (api = "array" /\ given = "index" /\ IndexWidth > dim * ty
            /\ decoded.tag # "none")
        => /\ decoded.tag = "ok"
           /\ decoded.val = array_coord_of(index.val \cap 0..(dim * ty - 1),
                                           IndexWidth, dim)
           /\ reindex.tag # "none"
                  => reindex = Ok(index.val \cap 0..(dim * ty - 1))

\* C26 witness: the u32 index with every bit but bit 0 set has been decoded
\* with N = 3 to [0xFE, 0xFF, 0xFF], the decode of its low 24 bits, and
\* encoded again to the bits 1..23.
C26_Witness ==
    /\ api = "array" /\ given = "index"
    /\ ty = 8 /\ dim = 3
    /\ index = Ok(1..31)
    /\ decoded = Ok(<<1..7, 0..7, 0..7>>)
    /\ reindex = Ok(1..23)

\* C27 (encode is monotone): for array_index_of of lib.rs and for the
\* generic encode, when a coordinate array c and an array d that
\* equals c except on one axis, where c is smaller, have both been encoded,
\* both calls returned and the index of c is smaller than the index of d;
\* and when c is nowhere larger than d, the index of c is not larger than
\* the index of d.
C27_Monotone ==
    (api \in {"order", "generic order"} /\ index2.tag # "none")
        => /\ index.tag = "ok" /\ index2.tag = "ok"
           /\ (\E k \in 1..dim :
                  /\ WordLess(coords.val[k], coords2.val[k])
                  /\ \A a \in (1..dim) \ {k} : coords.val[a] = coords2.val[a])
                => WordLess(index.val, index2.val)
           /\ (\A a \in 1..dim :
                  \/ coords.val[a] = coords2.val[a]
                  \/ WordLess(coords.val[a], coords2.val[a]))
                => (index.val = index2.val \/ WordLess(index.val, index2.val))

\* Axis 3 of three u8 axes goes from 0x7F to 0x80 next to full axes.
C27_Witness ==
    /\ api = "order" /\ ty = 8 /\ dim = 3 /\ margs = <<3>>
    /\ coords = Ok(<<0..7, 0..7, 0..6>>)
    /\ coords2 = Ok(<<0..7, 0..7, {7}>>)
    /\ index.tag = "ok" /\ index2.tag = "ok"
    /\ 23 \in index2.val /\ 23 \notin index.val
    /\ WordLess(index.val, index2.val)

====
